---------------------------- MODULE Spec2Model ----------------------------
(* Model of frappe_powertools.orm.query: the Q filter tree, the lookup    *)
(* parser, the condition builder, the Q-to-criterion compiler and the      *)
(* ReadQuery descriptor; of frappe_powertools.transaction: atomic blocks   *)
(* over the per-context transaction state; of frappe_powertools.config:    *)
(* config(), AppConfig.load and override_config; and of                    *)
(* frappe_powertools.workbook: the row iterators of iter_validated_rows.   *)
(*                                                                         *)
(* Strings (filter keys, field names, lookup names, string values) are     *)
(* sequences of one-character strings, so that rsplit("__", 1) and the     *)
(* LIKE patterns are computed as the code computes them.                   *)
(* Python values are tagged records; criteria (the PyPika expressions the  *)
(* code builds) are syntax trees, evaluated on rows with SQL's             *)
(* three-valued logic.                                                     *)
EXTENDS Integers, Sequences, FiniteSets, TLC

VARIABLES
    heap,   \* the Q objects alive in the program, in creation order
    rq,     \* the ReadQuery descriptor
    lk,     \* the (key, value) pair handed to the lookup parser / builder
    last,   \* the last operation performed and what it returned
    txn,    \* the per-context TransactionState
    atomics, \* the Atomic instances whose block is open, outermost first
    db,     \* the calls made on frappe.db, in order
    exc,    \* the exception on its way up, or the one caught last
    conf,   \* the config module: its repository and the open override blocks
    wb      \* the workbook being iterated and the iterator's position

txvars == <<txn, atomics, db, exc>>
modvars == <<conf, wb>>
vars == <<heap, rq, lk, last, txvars, modvars>>

-----------------------------------------------------------------------------
(* Python values *)

NoneV == [t |-> "none", n |-> 0, s |-> <<>>, items |-> <<>>]
IntV(n) == [t |-> "int", n |-> n, s |-> <<>>, items |-> <<>>]
BoolV(b) == [t |-> "bool", n |-> IF b THEN 1 ELSE 0, s |-> <<>>, items |-> <<>>]
StrV(s) == [t |-> "str", n |-> 0, s |-> s, items |-> <<>>]
ListV(items) == [t |-> "list", n |-> 0, s |-> <<>>, items |-> items]
TupleV(items) == [t |-> "tuple", n |-> 0, s |-> <<>>, items |-> items]

\* isinstance(value, bool)
IsBool(v) == v.t = "bool"
\* isinstance(value, str)
IsStr(v) == v.t = "str"
\* hasattr(value, "__iter__")
HasIter(v) == v.t \in {"str", "list", "tuple"}
\* isinstance(value, (tuple, list))
IsTupleOrList(v) == v.t \in {"list", "tuple"}
\* list(value)
ToList(v) == IF v.t = "str" THEN [i \in 1..Len(v.s) |-> StrV(<<v.s[i]>>)] ELSE v.items

-----------------------------------------------------------------------------
(* Lookup names and field names *)

exact == <<"e","x","a","c","t">>
gt == <<"g","t">>
gte == <<"g","t","e">>
lt == <<"l","t">>
lte == <<"l","t","e">>
range == <<"r","a","n","g","e">>
in == <<"i","n">>
not_in == <<"n","o","t","_","i","n">>
isnull == <<"i","s","n","u","l","l">>
blank == <<"b","l","a","n","k">>
contains == <<"c","o","n","t","a","i","n","s">>
startswith == <<"s","t","a","r","t","s","w","i","t","h">>
endswith == <<"e","n","d","s","w","i","t","h">>

\* the two-character separator of a filter key
SEP == <<"_","_">>


-----------------------------------------------------------------------------
(* Lookup Parser *)

\* "__" in key
HasSep(key) == \E i \in 1..(Len(key) - 1) : key[i] = "_" /\ key[i + 1] = "_"

\* start of the rightmost "__" of key (what rsplit("__", 1) splits at)
LastSep(key) ==
    CHOOSE i \in 1..(Len(key) - 1) :
        /\ key[i] = "_" /\ key[i + 1] = "_"
        /\ \A j \in (i + 1)..(Len(key) - 1) : ~(key[j] = "_" /\ key[j + 1] = "_")

\* start of the leftmost "__" of key
FirstSep(key) ==
    CHOOSE i \in 1..(Len(key) - 1) :
        /\ key[i] = "_" /\ key[i + 1] = "_"
        /\ \A j \in 1..(i - 1) : ~(key[j] = "_" /\ key[j + 1] = "_")

\* a variant of the parser that splits at the first "__"
ParseLookupAtFirstSep(key, value) ==
    IF HasSep(key)
    THEN [field_name |-> SubSeq(key, 1, FirstSep(key) - 1),
          lookup |-> SubSeq(key, FirstSep(key) + 2, Len(key)),
          value |-> value]
    ELSE [field_name |-> key, lookup |-> exact, value |-> value]

\* the lookups the condition builder has a branch for
SupportedLookups ==
    {exact, gt, gte, lt, lte, range, in, not_in, isnull, blank,
     contains, startswith, endswith}

\* a variant of the parser that keeps a suffix it does not know in the field
\* name and falls back to exact
ParseLookupUnknownIsField(key, value) ==
    IF HasSep(key) /\ SubSeq(key, LastSep(key) + 2, Len(key)) \in SupportedLookups
    THEN [field_name |-> SubSeq(key, 1, LastSep(key) - 1),
          lookup |-> SubSeq(key, LastSep(key) + 2, Len(key)),
          value |-> value]
    ELSE [field_name |-> key, lookup |-> exact, value |-> value]

ParseLookup(key, value) ==
    IF HasSep(key)
    THEN [field_name |-> SubSeq(key, 1, LastSep(key) - 1),
          lookup |-> SubSeq(key, LastSep(key) + 2, Len(key)),
          value |-> value]
    ELSE [field_name |-> key, lookup |-> exact, value |-> value]

-----------------------------------------------------------------------------
(* Criteria: the expressions the code builds with the query builder *)

Crit(k, f, v, args) == [k |-> k, f |-> f, v |-> v, args |-> args]

FieldEq(f, v) == Crit("eq", f, v, <<>>)              \* field == value
FieldGt(f, v) == Crit("gt", f, v, <<>>)              \* field > value
FieldGte(f, v) == Crit("gte", f, v, <<>>)            \* field >= value
FieldLt(f, v) == Crit("lt", f, v, <<>>)              \* field < value
FieldLte(f, v) == Crit("lte", f, v, <<>>)            \* field <= value
FieldBetween(f, lo, hi) == Crit("between", f, TupleV(<<lo, hi>>), <<>>)
FieldIsIn(f, items) == Crit("isin", f, ListV(items), <<>>)
FieldNeSelf(f) == Crit("ne_self", f, NoneV, <<>>)    \* field != field
FieldEqSelf(f) == Crit("eq_self", f, NoneV, <<>>)    \* field == field
FieldIsNull(f) == Crit("isnull", f, NoneV, <<>>)
FieldNotNull(f) == Crit("notnull", f, NoneV, <<>>)
FieldLike(f, pattern) == Crit("like", f, StrV(pattern), <<>>)
CAnd(l, r) == Crit("and", <<>>, NoneV, <<l, r>>)     \* l & r
COr(l, r) == Crit("or", <<>>, NoneV, <<l, r>>)       \* l | r
CNot(c) == Crit("not", <<>>, NoneV, <<c>>)           \* ~c

\* a raised exception: what is the message's fixed text; f and lookup are the
\* field name and the lookup name the message quotes (<<>> when it quotes none)
Raise(what, f, lookup) == Crit("error", f, StrV(lookup), <<what>>)
IsError(c) == c.k = "error"


-----------------------------------------------------------------------------
(* Condition Builder *)

\* field names of the schema the descriptor is built for
status == <<"s">>
owner == <<"o">>
is_online == <<"n">>
is_check == <<"c">>

\* schema.model_fields: field name -> annotation
\* ("optional" stands for an annotation written  T | None)
Schema ==
    (status :> "str_optional") @@ (owner :> "str_optional") @@
    (is_online :> "bool_optional") @@ (is_check :> "bool")

\* get_origin(annotation): None for a plain class, the union type for T | None
GetOrigin(annotation) ==
    IF annotation \in {"str_optional", "bool_optional"} THEN "Union" ELSE "None"

\* annotation is bool or (origin is None and annotation is bool) or origin is bool
IsBoolField(annotation) ==
    \/ annotation = "bool"
    \/ (GetOrigin(annotation) = "None" /\ annotation = "bool")
    \/ GetOrigin(annotation) = "bool"

\* the value the lookup is built with, after the Check-field conversion
CoerceValue(schema, parsed) ==
    IF /\ parsed.field_name \in DOMAIN schema
       /\ IsBoolField(schema[parsed.field_name])
       /\ IsBool(parsed.value)
       /\ parsed.lookup = exact
    THEN IntV(parsed.value.n)
    ELSE parsed.value

\* a variant of the "in" branch that answers an empty list with field == field
InConditionEmptyEqSelf(f, value) ==
    IF IsStr(value)
    THEN Raise("in lookup requires an iterable, not a string", f, <<>>)
    ELSE IF ~HasIter(value)
    THEN Raise("in lookup requires an iterable", <<>>, <<>>)
    ELSE IF ToList(value) = <<>>
    THEN FieldEqSelf(f)
    ELSE FieldIsIn(f, ToList(value))

\* the branch  lookup == "in"
InCondition(f, value) ==
    IF IsStr(value)
    THEN Raise("in lookup requires an iterable, not a string", f, <<>>)
    ELSE IF ~HasIter(value)
    THEN Raise("in lookup requires an iterable", <<>>, <<>>)
    ELSE IF ToList(value) = <<>>
    THEN FieldNeSelf(f)
    ELSE FieldIsIn(f, ToList(value))

\* a variant of the "not_in" branch that takes a string as its characters
NotInConditionAcceptsStr(f, value) ==
    IF ~HasIter(value)
    THEN Raise("not_in lookup requires an iterable", <<>>, <<>>)
    ELSE IF ToList(value) = <<>>
    THEN FieldEqSelf(f)
    ELSE CNot(FieldIsIn(f, ToList(value)))

\* the branch  lookup == "not_in"
NotInCondition(f, value) ==
    IF IsStr(value)
    THEN Raise("not_in lookup requires an iterable, not a string", <<>>, <<>>)
    ELSE IF ~HasIter(value)
    THEN Raise("not_in lookup requires an iterable", <<>>, <<>>)
    ELSE IF ToList(value) = <<>>
    THEN FieldEqSelf(f)
    ELSE CNot(FieldIsIn(f, ToList(value)))

BuildCondition(schema, parsed) ==
    LET f == parsed.field_name
        lookup == parsed.lookup
        value == CoerceValue(schema, parsed)
    IN  IF lookup = exact THEN FieldEq(f, value)
        ELSE IF lookup = gt THEN FieldGt(f, value)
        ELSE IF lookup = gte THEN FieldGte(f, value)
        ELSE IF lookup = lt THEN FieldLt(f, value)
        ELSE IF lookup = lte THEN FieldLte(f, value)
        ELSE IF lookup = range THEN
            IF ~IsTupleOrList(value) \/ Len(value.items) # 2
            THEN Raise("range lookup requires a tuple or list of 2 values", <<>>, <<>>)
            ELSE FieldBetween(f, value.items[1], value.items[2])
        ELSE IF lookup = in THEN InCondition(f, value)
        ELSE IF lookup = not_in THEN NotInCondition(f, value)
        ELSE IF lookup = isnull THEN
            IF ~IsBool(value)
            THEN Raise("isnull lookup requires a boolean value", <<>>, <<>>)
            ELSE IF value.n = 1 THEN FieldIsNull(f) ELSE FieldNotNull(f)
        ELSE IF lookup = blank THEN
            IF ~IsBool(value)
            THEN Raise("blank lookup requires a boolean value", <<>>, <<>>)
            ELSE IF value.n = 1
            THEN COr(FieldIsNull(f), FieldEq(f, StrV(<<>>)))
            ELSE CNot(COr(FieldIsNull(f), FieldEq(f, StrV(<<>>))))
        ELSE IF lookup = contains THEN
            IF ~IsStr(value)
            THEN Raise("contains lookup requires a string value", <<>>, <<>>)
            ELSE FieldLike(f, <<"%">> \o value.s \o <<"%">>)
        ELSE IF lookup = startswith THEN
            IF ~IsStr(value)
            THEN Raise("startswith lookup requires a string value", <<>>, <<>>)
            ELSE FieldLike(f, value.s \o <<"%">>)
        ELSE IF lookup = endswith THEN
            IF ~IsStr(value)
            THEN Raise("endswith lookup requires a string value", <<>>, <<>>)
            ELSE FieldLike(f, <<"%">> \o value.s)
        ELSE Raise("Unsupported lookup", f, lookup)


-----------------------------------------------------------------------------
(* What a criterion selects: SQL's three-valued logic on one row.          *)
(* A row maps column names to scalar values, NoneV being NULL.             *)

IsNull(v) == v.t = "none"
IsNum(v) == v.t \in {"int", "bool"}

\* the order of characters in string comparisons
Alphabet == <<"%", "A", "P", "_", "x", "y">>
Rank(ch) == CHOOSE i \in 1..Len(Alphabet) : Alphabet[i] = ch

RECURSIVE StrLess(_, _)
StrLess(a, b) ==
    IF b = <<>> THEN FALSE
    ELSE IF a = <<>> THEN TRUE
    ELSE IF Head(a) = Head(b) THEN StrLess(Tail(a), Tail(b))
    ELSE Rank(Head(a)) < Rank(Head(b))

SqlEqual(a, b) ==
    \/ IsNum(a) /\ IsNum(b) /\ a.n = b.n
    \/ IsStr(a) /\ IsStr(b) /\ a.s = b.s

SqlLess(a, b) ==
    \/ IsNum(a) /\ IsNum(b) /\ a.n < b.n
    \/ IsStr(a) /\ IsStr(b) /\ StrLess(a.s, b.s)

Bool3(b) == IF b THEN "T" ELSE "F"
Not3(x) == IF x = "T" THEN "F" ELSE IF x = "F" THEN "T" ELSE "U"
And3(x, y) ==
    IF x = "F" \/ y = "F" THEN "F" ELSE IF x = "T" /\ y = "T" THEN "T" ELSE "U"
Or3(x, y) ==
    IF x = "T" \/ y = "T" THEN "T" ELSE IF x = "F" /\ y = "F" THEN "F" ELSE "U"

\* a comparison of two scalars: unknown as soon as one of them is NULL
Compare3(k, a, b) ==
    IF IsNull(a) \/ IsNull(b) THEN "U"
    ELSE IF k = "eq" THEN Bool3(SqlEqual(a, b))
    ELSE IF k = "gt" THEN Bool3(SqlLess(b, a))
    ELSE IF k = "gte" THEN Bool3(SqlLess(b, a) \/ SqlEqual(a, b))
    ELSE IF k = "lt" THEN Bool3(SqlLess(a, b))
    ELSE Bool3(SqlLess(a, b) \/ SqlEqual(a, b))

\* x IN (items)
In3(x, items) ==
    IF IsNull(x) THEN "U"
    ELSE IF \E i \in 1..Len(items) : ~IsNull(items[i]) /\ SqlEqual(x, items[i]) THEN "T"
    ELSE IF \E i \in 1..Len(items) : IsNull(items[i]) THEN "U"
    ELSE "F"

\* str LIKE pattern, with the wildcards % and _
RECURSIVE LikeMatch(_, _)
LikeMatch(str, pattern) ==
    IF pattern = <<>> THEN str = <<>>
    ELSE IF Head(pattern) = "%"
    THEN LikeMatch(str, Tail(pattern)) \/ (str # <<>> /\ LikeMatch(Tail(str), pattern))
    ELSE IF str = <<>> THEN FALSE
    ELSE /\ (Head(pattern) = "_" \/ Head(pattern) = Head(str))
         /\ LikeMatch(Tail(str), Tail(pattern))

RECURSIVE Eval(_, _)
Eval(c, row) ==
    IF c.k \in {"eq", "gt", "gte", "lt", "lte"} THEN Compare3(c.k, row[c.f], c.v)
    ELSE IF c.k = "between"
    THEN And3(Compare3("gte", row[c.f], c.v.items[1]), Compare3("lte", row[c.f], c.v.items[2]))
    ELSE IF c.k = "isin" THEN In3(row[c.f], c.v.items)
    ELSE IF c.k = "ne_self" THEN Not3(Compare3("eq", row[c.f], row[c.f]))
    ELSE IF c.k = "eq_self" THEN Compare3("eq", row[c.f], row[c.f])
    ELSE IF c.k = "isnull" THEN Bool3(IsNull(row[c.f]))
    ELSE IF c.k = "notnull" THEN Bool3(~IsNull(row[c.f]))
    ELSE IF c.k = "like"
    THEN IF IsNull(row[c.f]) THEN "U"
         ELSE Bool3(IsStr(row[c.f]) /\ LikeMatch(row[c.f].s, c.v.s))
    ELSE IF c.k = "and" THEN And3(Eval(c.args[1], row), Eval(c.args[2], row))
    ELSE IF c.k = "or" THEN Or3(Eval(c.args[1], row), Eval(c.args[2], row))
    ELSE IF c.k = "not" THEN Not3(Eval(c.args[1], row))
    ELSE "error"

\* the row is selected by a WHERE clause holding c
Matches(c, row) == Eval(c, row) = "T"

\* the rows the criteria are evaluated on: every combination of NULL and two
\* values in the columns status and owner
Rows ==
    { (status :> s) @@ (owner :> o) :
        s \in {NoneV, StrV(<<"A">>), StrV(<<"P">>)},
        o \in {NoneV, StrV(<<"x">>), StrV(<<"y">>)} }

\* two criteria select with the same truth value on every row
Equivalent(c, d) ==
    IF IsError(c) \/ IsError(d) THEN c = d
    ELSE \A row \in Rows : Eval(c, row) = Eval(d, row)


-----------------------------------------------------------------------------
(* Filter Tree (Q).  A Q object is an entry of heap; a child of a Q is      *)
(* either a dict of keyword lookups (a sequence of <<key, value>> pairs in  *)
(* insertion order) or a reference to another Q object.                     *)

DictChild(kwargs) == [kind |-> "dict", ref |-> 0, dict |-> kwargs]
QChild(i) == [kind |-> "Q", ref |-> i, dict |-> <<>>]

\* Q(**kwargs)
QNew(kwargs) ==
    [children |-> IF kwargs # <<>> THEN <<DictChild(kwargs)>> ELSE <<>>,
     connector |-> "AND",
     negated |-> FALSE]

\* self._combine(other, connector), self and other being heap references
QCombine(self, other, connector) ==
    [children |-> <<QChild(self), QChild(other)>>,
     connector |-> connector,
     negated |-> FALSE]

\* a variant of _combine that adds other to self's own children
HeapCombineInPlace(h, self, other, connector) ==
    Append([h EXCEPT ![self].children = Append(@, QChild(other)),
                     ![self].connector = connector],
           QCombine(self, other, connector))

\* the objects that exist once self._combine(other, connector) has returned:
\* q = Q(); q.children = [self, other]; q.connector = connector
HeapCombine(h, self, other, connector) == Append(h, QCombine(self, other, connector))

\* a variant of ~self that sets the flag instead of flipping it
QInvertOfSetsFlag(h, self) ==
    [children |-> <<QChild(self)>>,
     connector |-> "AND",
     negated |-> TRUE]

\* a variant of ~self that copies the operand's flag
QInvertOfKeepsFlag(h, self) ==
    [children |-> <<QChild(self)>>,
     connector |-> "AND",
     negated |-> h[self].negated]

\* ~self
QInvertOf(h, self) ==
    [children |-> <<QChild(self)>>,
     connector |-> "AND",
     negated |-> ~h[self].negated]

-----------------------------------------------------------------------------
(* Tree Compiler *)

\* a variant that leaves out the keys whose condition cannot be built
LeafConditionsSkipInvalid(dict) ==
    SelectSeq([j \in 1..Len(dict) |->
                  BuildCondition(Schema, ParseLookup(dict[j][1], dict[j][2]))],
              LAMBDA c : ~IsError(c))

\* the conditions of one leaf dict, key by key
LeafConditions(dict) ==
    [j \in 1..Len(dict) |-> BuildCondition(Schema, ParseLookup(dict[j][1], dict[j][2]))]

\* a variant of the double-negation test that forgets the child's flag
IsDoubleNegationParentOnly(h, q) ==
    /\ Len(q.children) = 1
    /\ q.children[1].kind = "Q"
    /\ q.negated

\* the parent and its single child are both negated
IsDoubleNegation(h, q) ==
    /\ Len(q.children) = 1
    /\ q.children[1].kind = "Q"
    /\ q.negated
    /\ h[q.children[1].ref].negated

\* the Q the double negation unwraps to
Unwrapped(h, q) ==
    [children |-> h[q.children[1].ref].children,
     connector |-> h[q.children[1].ref].connector,
     negated |-> FALSE]

\* a variant of the combining step that ignores the connector
ConnectAlwaysAnd(connector, combined, condition) == CAnd(combined, condition)

\* one step of the loop that combines the child conditions
Connect(connector, combined, condition) ==
    IF connector = "AND" THEN CAnd(combined, condition)
    ELSE IF connector = "OR" THEN COr(combined, condition)
    ELSE Raise("Unknown connector", <<>>, <<>>)

RECURSIVE CombineConditions(_, _, _)
CombineConditions(connector, combined, rest) ==
    IF rest = <<>> \/ IsError(combined) THEN combined
    ELSE CombineConditions(connector, Connect(connector, combined, Head(rest)), Tail(rest))

\* if q.negated: combined = ~combined
ApplyNegation(q, combined) ==
    IF q.negated /\ ~IsError(combined) THEN CNot(combined) ELSE combined

\* the first exception raised while the child conditions are collected
FirstError(conds) ==
    conds[CHOOSE i \in 1..Len(conds) :
            IsError(conds[i]) /\ \A j \in 1..(i - 1) : ~IsError(conds[j])]

RECURSIVE QToCriterion(_, _)
RECURSIVE ChildConditions(_, _)

\* a variant of the loop that skips a child Q without children
ChildConditionsSkipEmpty(h, children) ==
    IF children = <<>> THEN <<>>
    ELSE (IF Head(children).kind = "dict"
          THEN LeafConditions(Head(children).dict)
          ELSE IF h[Head(children).ref].children = <<>> THEN <<>>
          ELSE <<QToCriterion(h, h[Head(children).ref])>>)
         \o ChildConditions(h, Tail(children))

\* child_conditions, in the order the loop over q.children appends them
ChildConditions(h, children) ==
    IF children = <<>> THEN <<>>
    ELSE (IF Head(children).kind = "dict"
          THEN LeafConditions(Head(children).dict)
          ELSE <<QToCriterion(h, h[Head(children).ref])>>)
         \o ChildConditions(h, Tail(children))

QToCriterion(h, q) ==
    IF q.children = <<>>
    THEN Raise("Cannot convert empty Q object to criterion", <<>>, <<>>)
    ELSE IF IsDoubleNegation(h, q)
    THEN QToCriterion(h, Unwrapped(h, q))
    ELSE LET conds == ChildConditions(h, q.children)
         IN  IF \E i \in 1..Len(conds) : IsError(conds[i]) THEN FirstError(conds)
             ELSE IF conds = <<>>
             THEN Raise("Q object has no valid conditions", <<>>, <<>>)
             ELSE ApplyNegation(q, CombineConditions(q.connector, conds[1], Tail(conds)))


-----------------------------------------------------------------------------
(* Query Descriptor (ReadQuery) *)

\* ReadQuery(schema): every list empty, no limit
RQNew ==
    [filters |-> <<>>, exclude_filters |-> <<>>, filter_qs |-> <<>>,
     exclude_qs |-> <<>>, order_by_fields |-> <<>>, limit_value |-> NoneV,
     prefetch_fields |-> <<>>, select_related_fields |-> <<>>]

\* schema.Meta.links, in the order of the dict:
\* <<local field, link field, target doctype, target field>>
program == <<"p">>
program_name == <<"p", "_", "n">>
Links == << <<program_name, program, "Training Program", program_name>> >>

\* a variant of filter() that puts the new Q objects in front
RQFilterPrepends(d, conditions, kwargs) ==
    [d EXCEPT !.filter_qs = conditions \o @,
              !.filters = IF kwargs # <<>> THEN Append(@, kwargs) ELSE @]

\* self.filter(*conditions, **kwargs); conditions are references to Q objects
RQFilter(d, conditions, kwargs) ==
    [d EXCEPT !.filter_qs = @ \o conditions,
              !.filters = IF kwargs # <<>> THEN Append(@, kwargs) ELSE @]

\* self.exclude(*conditions, **kwargs)
RQExclude(d, conditions, kwargs) ==
    [d EXCEPT !.exclude_qs = @ \o conditions,
              !.exclude_filters = IF kwargs # <<>> THEN Append(@, kwargs) ELSE @]

\* self.order_by(*fields)
RQOrderBy(d, fields) == [d EXCEPT !.order_by_fields = @ \o fields]

\* a variant of limit() that never raises a limit already set
RQLimitKeepsSmaller(d, n) ==
    [d EXCEPT !.limit_value = IF @.t = "int" /\ @.n < n THEN @ ELSE IntV(n)]

\* self.limit(n)
RQLimit(d, n) == [d EXCEPT !.limit_value = IntV(n)]

\* self.prefetch(*fields)
RQPrefetch(d, fields) == [d EXCEPT !.prefetch_fields = @ \o fields]

\* self.select_related(*fields)
RQSelectRelated(d, fields) == [d EXCEPT !.select_related_fields = @ \o fields]

\* a variant of the combining loop that uses | instead of &
RECURSIVE CombineQsWithOr(_, _, _)
CombineQsWithOr(h, combined, rest) ==
    IF rest = <<>> THEN [h |-> h, q |-> combined]
    ELSE CombineQsWithOr(Append(h, QCombine(combined, Head(rest), "OR")),
                         Len(h) + 1, Tail(rest))

\* combined_q = qs[0]; for q in qs[1:]: combined_q = combined_q & q
\* (the Q objects & creates live only while the query is built: they are
\* appended to a copy of the heap)
RECURSIVE CombineQs(_, _, _)
CombineQs(h, combined, rest) ==
    IF rest = <<>> THEN [h |-> h, q |-> combined]
    ELSE CombineQs(Append(h, QCombine(combined, Head(rest), "AND")), Len(h) + 1, Tail(rest))

\* self._q_to_criterion(table, combined_q)
CombinedCriterion(h, qs) ==
    LET r == CombineQs(h, qs[1], Tail(qs))
    IN  QToCriterion(r.h, r.h[r.q])

\* the conditions of a list of keyword dicts, dict by dict and key by key
RECURSIVE KwConditions(_)
KwConditions(dicts) ==
    IF dicts = <<>> THEN <<>>
    ELSE LeafConditions(Head(dicts)) \o KwConditions(Tail(dicts))

\* ~criterion, when building the criterion did not raise
Negated(c) == IF IsError(c) THEN c ELSE CNot(c)

\* the where() calls of _build_frappe_query, block by block
QFilterWheres(h, d) ==
    IF d.filter_qs # <<>> THEN <<CombinedCriterion(h, d.filter_qs)>> ELSE <<>>

KwFilterWheres(d) == KwConditions(d.filters)

QExcludeWheres(h, d) ==
    IF d.exclude_qs # <<>> THEN <<Negated(CombinedCriterion(h, d.exclude_qs))>> ELSE <<>>

KwExcludeWheres(d) ==
    [i \in 1..Len(KwConditions(d.exclude_filters)) |->
        Negated(KwConditions(d.exclude_filters)[i])]

\* the link projections select_related adds
RECURSIVE LinkSelects(_, _)
LinkSelects(fields, links) ==
    IF fields = <<>> THEN <<>>
    ELSE SelectSeq(links, LAMBDA l : l[2] = Head(fields)) \o LinkSelects(Tail(fields), links)

\* query.orderby(table[field_name], order=...)
OrderBy(field_spec) ==
    IF field_spec # <<>> /\ Head(field_spec) = "-"
    THEN [field |-> Tail(field_spec), order |-> "desc"]
    ELSE [field |-> field_spec, order |-> "asc"]

NoQuery ==
    [selects |-> <<>>, wheres |-> <<>>, orderby |-> <<>>, limit |-> NoneV,
     error |-> Crit("none", <<>>, NoneV, <<>>), built |-> FALSE]

\* a query that was built: error is the exception raised while building, if any
Query(selects, wheres, orderby, limit) ==
    IF \E i \in 1..Len(wheres) : IsError(wheres[i])
    THEN [NoQuery EXCEPT !.error = FirstError(wheres)]
    ELSE [selects |-> selects, wheres |-> wheres, orderby |-> orderby,
          limit |-> limit, error |-> Crit("none", <<>>, NoneV, <<>>), built |-> TRUE]

\* self._build_frappe_query()
BuildFrappeQuery(h, d) ==
    Query(LinkSelects(d.select_related_fields, Links),
          QFilterWheres(h, d) \o KwFilterWheres(d) \o
              QExcludeWheres(h, d) \o KwExcludeWheres(d),
          [i \in 1..Len(d.order_by_fields) |-> OrderBy(d.order_by_fields[i])],
          d.limit_value)

\* a variant of count() that leaves out the keyword excludes
CountQueryNoKwExcludes(h, d) ==
    LET fq == CombineQs(h, d.filter_qs[1], Tail(d.filter_qs))
        xq == CombineQs(h, d.exclude_qs[1], Tail(d.exclude_qs))
    IN  Query(<<>>,
              (IF d.filter_qs # <<>> THEN <<QToCriterion(fq.h, fq.h[fq.q])>> ELSE <<>>)
              \o KwConditions(d.filters)
              \o (IF d.exclude_qs # <<>>
                  THEN <<Negated(QToCriterion(xq.h, xq.h[xq.q]))>> ELSE <<>>),
              <<>>,
              NoneV)

\* the count query of self.count(): the same where() calls written out again,
\* no link projection, no ordering, no limit
CountQuery(h, d) ==
    LET fq == CombineQs(h, d.filter_qs[1], Tail(d.filter_qs))
        xq == CombineQs(h, d.exclude_qs[1], Tail(d.exclude_qs))
        fk == KwConditions(d.filters)
        xk == KwConditions(d.exclude_filters)
    IN  Query(<<>>,
              (IF d.filter_qs # <<>> THEN <<QToCriterion(fq.h, fq.h[fq.q])>> ELSE <<>>)
              \o fk
              \o (IF d.exclude_qs # <<>>
                  THEN <<Negated(QToCriterion(xq.h, xq.h[xq.q]))>> ELSE <<>>)
              \o [i \in 1..Len(xk) |-> Negated(xk[i])],
              <<>>,
              NoneV)

\* the row is in the result of the query: every where() holds on it
Selected(query, row) == \A i \in 1..Len(query.wheres) : Matches(query.wheres[i], row)

-----------------------------------------------------------------------------
(* Running a query: what the backend returns for SELECT ... WHERE ...       *)
(* ORDER BY ... LIMIT ... on the rows of the table                          *)

\* the rows of the table, in storage order
Table ==
    << (status :> StrV(<<"P">>)) @@ (owner :> StrV(<<"x">>)),
       (status :> StrV(<<"A">>)) @@ (owner :> StrV(<<"y">>)),
       (status :> NoneV) @@ (owner :> StrV(<<"x">>)),
       (status :> StrV(<<"A">>)) @@ (owner :> StrV(<<"x">>)) >>

\* x sorts before y in ascending order: NULL first, then by value
ValLess(x, y) ==
    \/ IsNull(x) /\ ~IsNull(y)
    \/ ~IsNull(x) /\ ~IsNull(y) /\ SqlLess(x, y)

\* row a sorts before row b under the ORDER BY list
RECURSIVE RowLess(_, _, _)
RowLess(orderby, a, b) ==
    IF orderby = <<>> THEN FALSE
    ELSE LET f == Head(orderby).field
         IN  IF a[f] = b[f] THEN RowLess(Tail(orderby), a, b)
             ELSE IF Head(orderby).order = "asc" THEN ValLess(a[f], b[f])
             ELSE ValLess(b[f], a[f])

\* row put into an ordered list, behind the rows it does not sort before
RECURSIVE Insert(_, _, _)
Insert(orderby, row, sorted) ==
    IF sorted = <<>> THEN <<row>>
    ELSE IF RowLess(orderby, row, Head(sorted)) THEN <<row>> \o sorted
    ELSE <<Head(sorted)>> \o Insert(orderby, row, Tail(sorted))

RECURSIVE Sorted(_, _)
Sorted(orderby, rows) ==
    IF rows = <<>> THEN <<>>
    ELSE Insert(orderby, rows[Len(rows)], Sorted(orderby, SubSeq(rows, 1, Len(rows) - 1)))

\* query.run(as_dict=True)
Run(query, table) ==
    LET rows == Sorted(query.orderby, SelectSeq(table, LAMBDA row : Selected(query, row)))
    IN  IF query.limit.t = "int" /\ query.limit.n < Len(rows)
        THEN SubSeq(rows, 1, query.limit.n)
        ELSE rows

NoResult == [kind |-> "none", rows |-> <<>>, n |-> 0]

\* what the terminal operation returns: the rows of all(), the row or None
\* of first(), the number of count(); nothing when building the query raised
Result(op, query) ==
    IF ~query.built THEN [NoResult EXCEPT !.kind = "raised"]
    ELSE IF op = "all" THEN [kind |-> "rows", rows |-> Run(query, Table), n |-> 0]
    ELSE IF op = "first" THEN
        IF Run(query, Table) = <<>> THEN NoResult
        ELSE [kind |-> "row", rows |-> <<Run(query, Table)[1]>>, n |-> 0]
    ELSE [kind |-> "count", rows |-> <<>>, n |-> Len(Run(query, Table))]

-----------------------------------------------------------------------------
(* Atomic blocks (transaction/atomic.py) and the per-context               *)
(* TransactionState (transaction/state.py).                                *)

\* TransactionState(): the dataclass declares depth, savepoints and
\* owns_transaction; error_rolled_back is an attribute __exit__ reads and
\* assigns, "unset" as long as nothing has assigned it
NewTransactionState ==
    [depth |-> 0, savepoints |-> <<>>, owns_transaction |-> FALSE,
     error_rolled_back |-> "unset"]

\* _generate_savepoint_name(depth): f"powertools_sp_{depth}"
GenerateSavepointName(depth) == <<"powertools_sp_", depth>>

\* a call made on frappe.db
DbCall(call, name) == [call |-> call, name |-> name]

\* frappe.db has a callable release_savepoint, as Frappe's Database has
HasReleaseSavepoint == TRUE

NoException == "none"
\* the exceptions a block's body raises
BodyExceptions == {"RuntimeError", "ValueError"}

\* no exception has been raised
NoExc == [e |-> NoException, raised |-> NoException, left |-> <<>>,
          since |-> 0, upto |-> 0, caught |-> FALSE]

\* an exception is on its way up
Propagating == exc.e # NoException /\ ~exc.caught

\* the try part of Atomic.__exit__(exc_type, ...): reading the attribute
\* error_rolled_back of a state that has none raises AttributeError
ExitTry(state, name, log, e) ==
    IF e # NoException
    THEN IF state.error_rolled_back = "unset"
         THEN [state |-> state, db |-> log, raised |-> "AttributeError"]
         ELSE IF state.error_rolled_back = "False"
         THEN [state |-> [state EXCEPT !.error_rolled_back = "True"],
               db |-> Append(log, DbCall("rollback", name)),
               raised |-> NoException]
         ELSE [state |-> state, db |-> log, raised |-> NoException]
    ELSE IF HasReleaseSavepoint
         THEN [state |-> state, db |-> Append(log, DbCall("release_savepoint", name)),
               raised |-> NoException]
         ELSE [state |-> state, db |-> log, raised |-> NoException]

\* the finally part of Atomic.__exit__
ExitFinally(state) ==
    LET popped == IF state.savepoints # <<>>
                  THEN [state EXCEPT !.savepoints = SubSeq(@, 1, Len(@) - 1)]
                  ELSE state
        lower == IF popped.depth > 0 THEN [popped EXCEPT !.depth = @ - 1] ELSE popped
    IN  IF lower.depth = 0 THEN [lower EXCEPT !.error_rolled_back = "False"] ELSE lower

\* Atomic.__exit__ on the block whose savepoint is name, e being the
\* exception leaving the body (NoException: none).  out is the exception
\* that leaves the with statement: __exit__ returns False, so e goes on
\* unless __exit__ itself raised.
AtomicExit(state, name, log, e) ==
    LET try == ExitTry(state, name, log, e)
    IN  [state |-> ExitFinally(try.state),
         db |-> try.db,
         out |-> IF try.raised # NoException THEN try.raised ELSE e]

\* Atomic.__enter__
AtomicEnter(state, log) ==
    LET name == GenerateSavepointName(state.depth + 1)
    IN  [state |-> [state EXCEPT !.depth = @ + 1, !.savepoints = Append(@, name)],
         name |-> name,
         db |-> Append(log, DbCall("savepoint", name))]

\* the exception a call on frappe.db raises when the database refuses it
DbError == "DatabaseError"

\* Atomic.__enter__ when frappe.db.savepoint(name) raises: the state was
\* updated before the call
AtomicEnterDbRaises(state, log) ==
    [state |-> AtomicEnter(state, log).state,
     name |-> AtomicEnter(state, log).name,
     db |-> Append(log, DbCall("savepoint raised", AtomicEnter(state, log).name)),
     out |-> DbError]

\* __exit__ makes a call on frappe.db: release_savepoint after a normal
\* body, rollback after a failed one whose marker is False
ExitCallsDb(state, e) ==
    IF e = NoException THEN HasReleaseSavepoint ELSE state.error_rolled_back = "False"

\* Atomic.__exit__ when that call raises: the try part is left at the call,
\* the finally part runs, the call's exception leaves __exit__
AtomicExitDbRaises(state, name, log, e) ==
    [state |-> ExitFinally(state),
     db |-> Append(log, DbCall(IF e = NoException THEN "release_savepoint raised"
                               ELSE "rollback raised", name)),
     out |-> DbError]

\* a context in which no atomic block has run yet
TxFresh ==
    /\ txn = NewTransactionState
    /\ atomics = <<>>
    /\ db = <<>>
    /\ exc = NoExc

-----------------------------------------------------------------------------
(* Config (config/_reader.py, _repository.py, _casters.py, _app_config.py, *)
(* _testing.py).  A dict is a sequence of <<key, value>> pairs in          *)
(* insertion order; keys and strings are sequences of characters.          *)

\* the UNDEFINED sentinel
UNDEFINED == [t |-> "undefined", n |-> 0, s |-> <<>>, items |-> <<>>]
DictV(pairs) == [t |-> "dict", n |-> 0, s |-> <<>>, items |-> pairs]

\* d.get(key, default)
DictGet(pairs, key, default) ==
    IF \E i \in 1..Len(pairs) : pairs[i][1] = key
    THEN pairs[CHOOSE i \in 1..Len(pairs) : pairs[i][1] = key][2]
    ELSE default

\* FakeConfigRepository(env=env, site=site, common=common)
FakeConfigRepository(env, site, common) ==
    [kind |-> "fake", env |-> env, site |-> site, common |-> common]

\* FrappeConfigRepository(): os.environ, frappe.conf and the common site
\* config of the running site, here a site whose config holds k = "live"
FrappeConfigRepository ==
    [kind |-> "frappe", env |-> <<>>,
     site |-> << << <<"k">>, StrV(<<"l","i","v","e">>) >> >>, common |-> <<>>]

\* repo.get_env(key), repo.get_site_config(key), repo.get_common_config(key)
GetEnv(repo, key) == DictGet(repo.env, key, NoneV)
GetSiteConfig(repo, key) == DictGet(repo.site, key, NoneV)
GetCommonConfig(repo, key) == DictGet(repo.common, key, NoneV)

\* "." in key, and key.partition(".")
HasDot(key) == \E i \in 1..Len(key) : key[i] = "."
FirstDot(key) == CHOOSE i \in 1..Len(key) : key[i] = "." /\ \A j \in 1..(i - 1) : key[j] # "."
TopKey(key) == SubSeq(key, 1, FirstDot(key) - 1)
Rest(key) == SubSeq(key, FirstDot(key) + 1, Len(key))

\* key.split(".")
RECURSIVE SplitDots(_)
SplitDots(key) ==
    IF HasDot(key) THEN <<TopKey(key)>> \o SplitDots(Rest(key)) ELSE <<key>>

\* the loop of _resolve_dot_path over the segments
RECURSIVE WalkSegments(_, _)
WalkSegments(current, segments) ==
    IF segments = <<>> THEN current
    ELSE IF current.t # "dict" THEN UNDEFINED
    ELSE LET next == DictGet(current.items, Head(segments), UNDEFINED)
         IN  IF next = UNDEFINED THEN UNDEFINED ELSE WalkSegments(next, Tail(segments))

\* _resolve_dot_path(source, key)
ResolveDotPath(source, key) == WalkSegments(source, SplitDots(key))

\* _lookup_in_source(repo, key, source)
LookupInSource(repo, key, source) ==
    LET raw == IF source = "site" THEN GetSiteConfig(repo, key) ELSE GetCommonConfig(repo, key)
        top_value == IF source = "site" THEN GetSiteConfig(repo, TopKey(key))
                     ELSE GetCommonConfig(repo, TopKey(key))
    IN  IF raw # NoneV THEN raw
        ELSE IF HasDot(key) /\ top_value.t = "dict" /\
                ResolveDotPath(top_value, Rest(key)) # UNDEFINED
        THEN ResolveDotPath(top_value, Rest(key))
        ELSE UNDEFINED

\* value.strip().lower(), on the characters the values are made of
LowerChar(ch) == IF ch = "T" THEN "t" ELSE IF ch = "Y" THEN "y" ELSE ch
RECURSIVE Strip(_)
Strip(s) ==
    IF s # <<>> /\ Head(s) = " " THEN Strip(Tail(s))
    ELSE IF s # <<>> /\ s[Len(s)] = " " THEN Strip(SubSeq(s, 1, Len(s) - 1))
    ELSE s
Lower(s) == [i \in 1..Len(s) |-> LowerChar(s[i])]

TRUTHY == {<<"1">>, <<"t","r","u","e">>, <<"y","e","s">>, <<"o","n">>, <<"t">>, <<"y">>}
FALSY == {<<"0">>, <<"f","a","l","s","e">>, <<"n","o">>, <<"o","f","f">>, <<"f">>, <<"n">>, <<>>}

\* what a call returns or raises
Returned(v) == [kind |-> "value", v |-> v, exc |-> "none", key |-> <<>>]
Raised(what, key) == [kind |-> "raised", v |-> NoneV, exc |-> what, key |-> key]

\* _cast_bool(value)
CastBool(value) ==
    IF value.t = "bool" THEN Returned(value)
    ELSE IF value.t = "int" THEN Returned(BoolV(value.n # 0))
    ELSE IF value.t = "str"
    THEN IF Lower(Strip(value.s)) \in TRUTHY THEN Returned(BoolV(TRUE))
         ELSE IF Lower(Strip(value.s)) \in FALSY THEN Returned(BoolV(FALSE))
         ELSE Raised("ValueError", <<>>)
    ELSE Raised("ValueError", <<>>)

\* len(value), a cast that is not special-cased: the number of characters or
\* entries, TypeError for a value without a length
CastLen(value) ==
    IF value.t = "str" THEN Returned(IntV(Len(value.s)))
    ELSE IF value.t \in {"dict", "list", "tuple"} THEN Returned(IntV(Len(value.items)))
    ELSE Raised("TypeError", <<>>)

\* _resolve_cast(cast)(value): cast is None, bool or another callable (len)
ApplyCast(cast, value) ==
    IF cast = "None" THEN Returned(value)
    ELSE IF cast = "bool" THEN CastBool(value)
    ELSE CastLen(value)

NoEnv == <<"-">>

\* a variant of config() that asks the common config before the site config
ConfigCommonFirst(repo, key, default, cast, env) ==
    IF env # NoEnv /\ GetEnv(repo, env) # NoneV THEN ApplyCast(cast, GetEnv(repo, env))
    ELSE IF LookupInSource(repo, key, "common") # UNDEFINED
    THEN ApplyCast(cast, LookupInSource(repo, key, "common"))
    ELSE IF LookupInSource(repo, key, "site") # UNDEFINED
    THEN ApplyCast(cast, LookupInSource(repo, key, "site"))
    ELSE IF default # UNDEFINED THEN Returned(default)
    ELSE Raised("UndefinedValueError", key)

\* config(key, default=default, cast=cast, env=env) on the repository repo;
\* env = NoEnv stands for env=None
Config(repo, key, default, cast, env) ==
    IF env # NoEnv /\ GetEnv(repo, env) # NoneV THEN ApplyCast(cast, GetEnv(repo, env))
    ELSE IF LookupInSource(repo, key, "site") # UNDEFINED
    THEN ApplyCast(cast, LookupInSource(repo, key, "site"))
    ELSE IF LookupInSource(repo, key, "common") # UNDEFINED
    THEN ApplyCast(cast, LookupInSource(repo, key, "common"))
    ELSE IF default # UNDEFINED THEN Returned(default)
    ELSE Raised("UndefinedValueError", key)

\* str.upper(), on the characters the names are made of
UpperChar(ch) ==
    IF ch = "a" THEN "A" ELSE IF ch = "b" THEN "B" ELSE IF ch = "c" THEN "C" ELSE ch
Upper(s) == [i \in 1..Len(s) |-> UpperChar(s[i])]

\* an AppConfig subclass: its Meta and its fields, required or with a default
AppConfigClass(prefix, env_prefix, key, fields, required) ==
    [prefix |-> prefix, env_prefix |-> env_prefix, key |-> key, fields |-> fields,
     required |-> required]

\* nested_dict of AppConfig.load
NestedDict(cls, repo) ==
    IF cls.key = <<>> THEN <<>>
    ELSE IF GetSiteConfig(repo, cls.key).t = "dict" THEN GetSiteConfig(repo, cls.key).items
    ELSE IF GetCommonConfig(repo, cls.key).t = "dict" THEN GetCommonConfig(repo, cls.key).items
    ELSE <<>>

\* value of one field at the end of the loop body of AppConfig.load
FieldValue(cls, repo, field_name) ==
    LET env_key == Upper(cls.env_prefix \o <<"_">> \o field_name)
        config_key == IF cls.prefix # <<>> THEN cls.prefix \o <<"_">> \o field_name
                      ELSE field_name
    IN  IF cls.env_prefix # <<>> /\ GetEnv(repo, env_key) # NoneV THEN GetEnv(repo, env_key)
        ELSE IF cls.key # <<>> THEN DictGet(NestedDict(cls, repo), field_name, UNDEFINED)
        ELSE IF GetSiteConfig(repo, config_key) # NoneV THEN GetSiteConfig(repo, config_key)
        ELSE IF GetCommonConfig(repo, config_key) # NoneV THEN GetCommonConfig(repo, config_key)
        ELSE UNDEFINED

\* raw_data of AppConfig.load, field by field
RECURSIVE RawData(_, _, _)
RawData(cls, repo, fields) ==
    IF fields = <<>> THEN <<>>
    ELSE (IF FieldValue(cls, repo, Head(fields)) # UNDEFINED
          THEN << <<Head(fields), FieldValue(cls, repo, Head(fields))>> >>
          ELSE <<>>)
         \o RawData(cls, repo, Tail(fields))

\* cls.load(repo): the raw data handed to model_validate, which raises
\* ValidationError when a required field is missing
AppConfigLoad(cls, repo) ==
    LET raw_data == RawData(cls, repo, cls.fields)
    IN  [raw |-> raw_data,
         raised |-> \E f \in cls.required : DictGet(raw_data, f, UNDEFINED) = UNDEFINED]

\* the config module before any call: no repository is set
ConfNew == [active |-> 0, repos |-> <<>>, blocks |-> <<>>, entered |-> 0, base |-> 0]

\* set_repository(FakeConfigRepository(...)) before any block is entered
SetRepository(c, repo) ==
    [c EXCEPT !.repos = Append(@, repo), !.active = Len(c.repos) + 1,
              !.base = Len(c.repos) + 1]

\* the repository a call uses: _auto_repository()
AutoRepository(c) ==
    IF c.active = 0
    THEN [c EXCEPT !.repos = Append(@, FrappeConfigRepository), !.active = Len(c.repos) + 1]
    ELSE c

\* a variant of leaving override_config that clears the repository
OverrideExitClears(c) ==
    [c EXCEPT !.active = 0, !.blocks = SubSeq(@, 1, Len(@) - 1)]

\* override_config(site=..., common=..., env=...): up to the yield
OverrideEnter(c, site, common, env) ==
    [c EXCEPT !.repos = Append(@, FakeConfigRepository(env, site, common)),
              !.active = Len(c.repos) + 1,
              !.blocks = Append(@, [previous |-> c.active, fake |-> Len(c.repos) + 1]),
              !.entered = @ + 1]

\* override_config: the finally part, run when the block is left
OverrideExit(c) ==
    [c EXCEPT !.active = c.blocks[Len(c.blocks)].previous,
              !.blocks = SubSeq(@, 1, Len(@) - 1)]

-----------------------------------------------------------------------------
(* Workbook rows (workbook/core.py).  A file is the sequence of its         *)
(* physical rows: "blank" (an empty CSV line, an XLSX row of empty cells),  *)
(* "header" (the column names), "ok" and "bad" (a data row that validates   *)
(* against the model, or does not).                                         *)

\* WorkbookConfig(header_row=..., data_row_start=..., stop_on_first_error=...,
\* max_rows=...) after __post_init__; data_row_start and max_rows are NoneV
\* or IntV(n)
WorkbookConfig(header_row, data_row_start, stop_on_first_error, max_rows) ==
    [header_row |-> header_row,
     data_row_start |-> IF data_row_start = NoneV THEN header_row + 1 ELSE data_row_start.n,
     stop_on_first_error |-> stop_on_first_error,
     max_rows |-> max_rows]

NoRow == [row_index |-> 0, valid |-> FALSE, line |-> 0]

\* RowResult(context=RowContext(row_index=...), model=..., error=...) for the
\* physical row line
RowResult(row_index, valid, line) == [row_index |-> row_index, valid |-> valid, line |-> line]

\* the iterator before the first next()
IterNew ==
    [started |-> FALSE, pos |-> 0, current_row_index |-> 0, rows_processed |-> 0,
     result |-> NoRow, done |-> FALSE]

\* csv.DictReader(fp): the line the reader takes the column names from, the
\* first non-empty one (the length of the file when there is none)
FieldnamesLine(file) ==
    IF \E i \in 1..Len(file) : file[i] # "blank"
    THEN CHOOSE i \in 1..Len(file) :
             file[i] # "blank" /\ \A j \in 1..(i - 1) : file[j] = "blank"
    ELSE Len(file)

\* the for loop of _iter_csv_rows up to the next yield: csv.DictReader hands
\* out the non-empty lines behind pos; a row validates when it is an "ok"
\* row read under the column names
RECURSIVE CsvRead(_, _, _)
CsvRead(file, config, it) ==
    IF it.pos >= Len(file) THEN [it EXCEPT !.done = TRUE, !.result = NoRow]
    ELSE IF file[it.pos + 1] = "blank"
    THEN CsvRead(file, config, [it EXCEPT !.pos = @ + 1])
    ELSE IF it.current_row_index + 1 < config.data_row_start
    THEN CsvRead(file, config, [it EXCEPT !.pos = @ + 1, !.current_row_index = @ + 1])
    ELSE [it EXCEPT !.pos = @ + 1,
                    !.current_row_index = @ + 1,
                    !.result = RowResult(it.current_row_index + 1,
                                         file[it.pos + 1] = "ok"
                                         /\ file[FieldnamesLine(file)] = "header",
                                         it.pos + 1)]

\* the for loop of _iter_xlsx_rows up to the next yield: iter_rows hands out
\* every row of the sheet from data_row_start on, enumerate numbers them
RECURSIVE XlsxRead(_, _, _)
XlsxRead(file, config, it) ==
    IF it.pos >= Len(file) THEN [it EXCEPT !.done = TRUE, !.result = NoRow]
    ELSE IF file[it.pos + 1] = "blank"
    THEN XlsxRead(file, config, [it EXCEPT !.pos = @ + 1])
    ELSE [it EXCEPT !.pos = @ + 1,
                    !.current_row_index = it.pos + 1,
                    !.result = RowResult(it.pos + 1, file[it.pos + 1] = "ok", it.pos + 1)]

\* a variant that counts the rows read instead of the rows yielded
StopsAfterRead(config, it) ==
    \/ config.stop_on_first_error /\ ~it.result.valid
    \/ config.max_rows # NoneV /\ it.pos >= config.max_rows.n

\* the stopping conditions behind the yield
StopsAfterYield(config, it) ==
    \/ config.stop_on_first_error /\ ~it.result.valid
    \/ config.max_rows # NoneV /\ it.rows_processed + 1 >= config.max_rows.n

\* one next() on the generator _iter_csv_rows(fp, model, config)
CsvNext(file, config, it) ==
    IF ~it.started
    THEN CsvRead(file, config,
                 [it EXCEPT !.started = TRUE,
                            !.pos = FieldnamesLine(file),
                            !.current_row_index = 1])
    ELSE IF StopsAfterYield(config, it)
    THEN [it EXCEPT !.rows_processed = @ + 1, !.done = TRUE, !.result = NoRow]
    ELSE CsvRead(file, config, [it EXCEPT !.rows_processed = @ + 1])

\* one next() on the generator _iter_xlsx_rows(fp, model, config)
XlsxNext(file, config, it) ==
    IF ~it.started
    THEN IF config.header_row > Len(file) \/ file[config.header_row] = "blank"
         THEN [it EXCEPT !.started = TRUE, !.done = TRUE]
         ELSE XlsxRead(file, config,
                       [it EXCEPT !.started = TRUE, !.pos = config.data_row_start - 1])
    ELSE IF StopsAfterYield(config, it)
    THEN [it EXCEPT !.rows_processed = @ + 1, !.done = TRUE, !.result = NoRow]
    ELSE XlsxRead(file, config, [it EXCEPT !.rows_processed = @ + 1])

\* iter_validated_rows(fp, model, config=config): the generator for the format
IterNext(format, file, config, it) ==
    IF format = "csv" THEN CsvNext(file, config, it) ELSE XlsxNext(file, config, it)

\* no workbook is open
WbClosed ==
    [format |-> "none", file |-> <<>>,
     config |-> WorkbookConfig(1, NoneV, FALSE, NoneV), it |-> IterNew, yielded |-> <<>>]

\* the other modules are not in use
ModIdle ==
    /\ conf = ConfNew
    /\ wb = WbClosed

-----------------------------------------------------------------------------
(* Bounds and inputs *)

\* applications of &, | and ~ in one run
MaxOps == 2

\* the keyword arguments the leaf Q objects are created with, in the order
\* the program creates them:
\*   Q(), Q(status="A"), Q(status="P"), Q(owner="x"), Q(status="A", owner="x")
LeafOrder ==
    << <<>>,
       << <<status, StrV(<<"A">>)>> >>,
       << <<status, StrV(<<"P">>)>> >>,
       << <<owner, StrV(<<"x">>)>> >>,
       << <<status, StrV(<<"A">>)>>, <<owner, StrV(<<"x">>)>> >> >>

QKwargs == {LeafOrder[i] : i \in 1..Len(LeafOrder)}

\* the program first creates its leaves, then combines what it has
LeavesDone == Len(heap) >= Len(LeafOrder)
MayCombine == LeavesDone /\ Len(heap) < Len(LeafOrder) + MaxOps

NoCrit == Crit("none", <<>>, NoneV, <<>>)
NoLookup == [key |-> <<>>, value |-> NoneV]

\* what the last operation was, on which heap entries, the heap entry it
\* returned (0: none) and the criterion it returned
Done(op, args, node, crit) ==
    [op |-> op, args |-> args, node |-> node, crit |-> crit, query |-> NoQuery,
     ret |-> RQNew, result |-> NoResult]

\* a chaining operation of the descriptor, its arguments and the descriptor
\* it returned
DoneChain(op, args, ret) ==
    [op |-> op, args |-> args, node |-> 0, crit |-> NoCrit, query |-> NoQuery,
     ret |-> ret, result |-> NoResult]

\* a terminal operation of the descriptor and the query it built
DoneQuery(op, query) ==
    [op |-> op, args |-> <<>>, node |-> 0, crit |-> NoCrit, query |-> query,
     ret |-> RQNew, result |-> Result(op, query)]

-----------------------------------------------------------------------------
(* Operations on Q objects *)

QInit(kwargs) ==
    /\ ~LeavesDone
    /\ kwargs = LeafOrder[Len(heap) + 1]
    /\ heap' = Append(heap, QNew(kwargs))
    /\ last' = Done("Q", <<>>, Len(heap) + 1, NoCrit)
    /\ UNCHANGED <<rq, lk, txvars, modvars>>

QAnd(self, other) ==
    /\ MayCombine
    /\ heap' = HeapCombine(heap, self, other, "AND")
    /\ last' = Done("and", <<self, other>>, Len(heap) + 1, NoCrit)
    /\ UNCHANGED <<rq, lk, txvars, modvars>>

QOr(self, other) ==
    /\ MayCombine
    /\ heap' = HeapCombine(heap, self, other, "OR")
    /\ last' = Done("or", <<self, other>>, Len(heap) + 1, NoCrit)
    /\ UNCHANGED <<rq, lk, txvars, modvars>>

QInvert(self) ==
    /\ MayCombine
    /\ heap' = Append(heap, QInvertOf(heap, self))
    /\ last' = Done("invert", <<self>>, Len(heap) + 1, NoCrit)
    /\ UNCHANGED <<rq, lk, txvars, modvars>>

\* rq._q_to_criterion(table, q), q being the Q object just built
Compile(q) ==
    /\ q = Len(heap)
    /\ last' = Done("compile", <<q>>, 0, QToCriterion(heap, heap[q]))
    /\ UNCHANGED <<heap, rq, lk, txvars, modvars>>

Init ==
    /\ heap = <<>>
    /\ rq = RQNew
    /\ lk = NoLookup
    /\ last = Done("none", <<>>, 0, NoCrit)
    /\ TxFresh
    /\ ModIdle

Next ==
    \/ \E kwargs \in QKwargs : QInit(kwargs)
    \/ \E self \in 1..Len(heap), other \in 1..Len(heap) : QAnd(self, other)
    \/ \E self \in 1..Len(heap), other \in 1..Len(heap) : QOr(self, other)
    \/ \E self \in 1..Len(heap) : QInvert(self)
    \/ \E q \in 1..Len(heap) : Compile(q)

Spec == Init /\ [][Next]_vars


-----------------------------------------------------------------------------
(* The lookup parser and the condition builder on their own: one          *)
(* (key, value) pair is drawn, parsed and handed to the builder.          *)

\* what follows the field name in a key: nothing, "__" and a supported
\* lookup, "__" and an unknown lookup, or "__" alone
Suffixes ==
    { <<>> } \cup
    { SEP \o l : l \in {exact, gt, gte, lt, lte, range, in, not_in, isnull,
                        blank, contains, startswith, endswith,
                        <<"n","a","m","e">>, <<>>} }

LookupKeys ==
    { f \o s : f \in {status, owner, is_online, is_check}, s \in Suffixes } \cup
    { SEP \o gt, status \o <<"_">> \o SEP \o in, status \o SEP \o owner \o SEP \o gt }

LookupValues ==
    { NoneV, BoolV(TRUE), BoolV(FALSE), IntV(0), IntV(1),
      StrV(<<>>), StrV(<<"A">>), StrV(<<"A", "P">>),
      ListV(<<>>), TupleV(<<>>),
      ListV(<<StrV(<<"A">>)>>), ListV(<<StrV(<<"A">>), StrV(<<"P">>)>>),
      TupleV(<<StrV(<<"A">>), StrV(<<"P">>)>>),
      ListV(<<StrV(<<"A">>), StrV(<<"P">>), StrV(<<"A">>)>>) }

\* rq._build_condition(table, _parse_lookup(key, value))
BuildLookup ==
    /\ last' = Done("build", <<ParseLookup(lk.key, lk.value)>>, 0,
                    BuildCondition(Schema, ParseLookup(lk.key, lk.value)))
    /\ UNCHANGED <<heap, rq, lk, txvars, modvars>>

InitLookup ==
    /\ heap = <<>>
    /\ rq = RQNew
    /\ lk \in [key : LookupKeys, value : LookupValues]
    /\ last = Done("none", <<>>, 0, NoCrit)
    /\ TxFresh
    /\ ModIdle

NextLookup == BuildLookup

SpecLookup == InitLookup /\ [][NextLookup]_vars

-----------------------------------------------------------------------------
(* Q objects assembled by assigning the public attributes children,        *)
(* connector and negated, as _combine, __invert__ and the compiler's       *)
(* unwrap do themselves: children is declared list[Q | dict], so a node    *)
(* may hold dicts and Qs side by side under either connector.              *)

\* the leaves of LeafOrder, as the program has them once they are created
Leaves == [i \in 1..Len(LeafOrder) |-> QNew(LeafOrder[i])]

AssignedChildren ==
    LET one == {DictChild(kw) : kw \in QKwargs \ {<<>>}} \cup
               {QChild(i) : i \in 1..Len(LeafOrder)}
    IN  {<<c>> : c \in one} \cup {<<c, d>> : c \in one, d \in one}

\* q = Q(); q.children = children; q.connector = connector; q.negated = negated
QAssign(children, connector, negated) ==
    /\ Len(heap) = Len(LeafOrder)
    /\ heap' = Append(heap, [children |-> children, connector |-> connector,
                             negated |-> negated])
    /\ last' = Done("assign", <<>>, Len(heap) + 1, NoCrit)
    /\ UNCHANGED <<rq, lk, txvars, modvars>>

InitRaw ==
    /\ heap = Leaves
    /\ rq = RQNew
    /\ lk = NoLookup
    /\ last = Done("none", <<>>, 0, NoCrit)
    /\ TxFresh
    /\ ModIdle

NextRaw ==
    \/ \E children \in AssignedChildren, connector \in {"AND", "OR"}, negated \in BOOLEAN :
            QAssign(children, connector, negated)
    \/ \E q \in 1..Len(heap) : Compile(q)

SpecRaw == InitRaw /\ [][NextRaw]_vars

-----------------------------------------------------------------------------
(* Deeper expressions: the leaves exist, and ~ is applied repeatedly, to   *)
(* leaves, to its own results and to the results of & and | with a leaf.   *)

\* applications of ~, & and | in one run
MaxNest == 3

\* the leaf that & and | take as right operand: Q(status="A")
NestOperands == {2}

MayNest == Len(heap) < Len(LeafOrder) + MaxNest

\* ~self
NestInvert(self) ==
    /\ MayNest
    /\ heap' = Append(heap, QInvertOf(heap, self))
    /\ last' = Done("invert", <<self>>, Len(heap) + 1, NoCrit)
    /\ UNCHANGED <<rq, lk, txvars, modvars>>

\* self & other, self | other
NestCombine(self, other, connector) ==
    /\ MayNest
    /\ heap' = HeapCombine(heap, self, other, connector)
    /\ last' = Done(IF connector = "AND" THEN "and" ELSE "or", <<self, other>>,
                    Len(heap) + 1, NoCrit)
    /\ UNCHANGED <<rq, lk, txvars, modvars>>

NextNest ==
    \/ \E self \in 1..Len(heap) : NestInvert(self)
    \/ \E self \in 1..Len(heap), other \in NestOperands, connector \in {"AND", "OR"} :
            NestCombine(self, other, connector)
    \/ \E q \in 1..Len(heap) : Compile(q)

SpecNest == InitRaw /\ [][NextNest]_vars

-----------------------------------------------------------------------------
(* The descriptor: chaining calls on one ReadQuery, then a terminal call.  *)

\* entries accumulated in the descriptor's lists in one run
MaxEntries == 3

\* the Q objects the program holds when it builds the query:
\* the leaves, then  6: Q(status="A") | Q(status="P")   7: ~Q(owner="x")
RQHeap ==
    LET h6 == Append(Leaves, QCombine(2, 3, "OR"))
    IN  Append(h6, QInvertOf(h6, 4))

\* the positional arguments of filter() and exclude(): at most two of
\* Q(status="A"), Q(owner="x"), Q(status="A") | Q(status="P"), ~Q(owner="x")
QArgs == {2, 4, 6, 7}
Conditions == {<<>>} \cup {<<q>> : q \in QArgs} \cup {<<p, q>> : p \in QArgs, q \in QArgs}

\* the keyword arguments of filter() and exclude():
\* none, status="P", or owner="x" with status__in=["A", "P"]
RQKwargs ==
    { <<>>,
      << <<status, StrV(<<"P">>)>> >>,
      << <<owner, StrV(<<"x">>)>>,
         <<status \o SEP \o in, ListV(<<StrV(<<"A">>), StrV(<<"P">>)>>)>> >> }

FieldSpecs == { <<status>>, << <<"-">> \o owner >> }

Size(d) ==
    Len(d.filters) + Len(d.exclude_filters) + Len(d.filter_qs) + Len(d.exclude_qs)
    + Len(d.order_by_fields) + Len(d.prefetch_fields) + Len(d.select_related_fields)

Filter(conditions, kwargs) ==
    /\ Size(RQFilter(rq, conditions, kwargs)) <= MaxEntries
    /\ rq' = RQFilter(rq, conditions, kwargs)
    /\ last' = DoneChain("filter", <<conditions, kwargs>>, rq')
    /\ UNCHANGED <<heap, lk, txvars, modvars>>

Exclude(conditions, kwargs) ==
    /\ Size(RQExclude(rq, conditions, kwargs)) <= MaxEntries
    /\ rq' = RQExclude(rq, conditions, kwargs)
    /\ last' = DoneChain("exclude", <<conditions, kwargs>>, rq')
    /\ UNCHANGED <<heap, lk, txvars, modvars>>

OrderByFields(fields) ==
    /\ Size(RQOrderBy(rq, fields)) <= MaxEntries
    /\ rq' = RQOrderBy(rq, fields)
    /\ last' = DoneChain("order_by", <<fields>>, rq')
    /\ UNCHANGED <<heap, lk, txvars, modvars>>

Limit(n) ==
    /\ rq' = RQLimit(rq, n)
    /\ last' = DoneChain("limit", <<n>>, rq')
    /\ UNCHANGED <<heap, lk, txvars, modvars>>

Prefetch(fields) ==
    /\ Size(RQPrefetch(rq, fields)) <= MaxEntries
    /\ rq' = RQPrefetch(rq, fields)
    /\ last' = DoneChain("prefetch", <<fields>>, rq')
    /\ UNCHANGED <<heap, lk, txvars, modvars>>

SelectRelated(fields) ==
    /\ Size(RQSelectRelated(rq, fields)) <= MaxEntries
    /\ rq' = RQSelectRelated(rq, fields)
    /\ last' = DoneChain("select_related", <<fields>>, rq')
    /\ UNCHANGED <<heap, lk, txvars, modvars>>

\* self.all(): the query is built, then run
All ==
    /\ last' = DoneQuery("all", BuildFrappeQuery(heap, rq))
    /\ UNCHANGED <<heap, rq, lk, txvars, modvars>>

\* self.first(): limit_value = 1, then all()
First ==
    /\ rq' = [rq EXCEPT !.limit_value = IntV(1)]
    /\ last' = DoneQuery("first", BuildFrappeQuery(heap, rq'))
    /\ UNCHANGED <<heap, lk, txvars, modvars>>

\* self.count()
Count ==
    /\ last' = DoneQuery("count", CountQuery(heap, rq))
    /\ UNCHANGED <<heap, rq, lk, txvars, modvars>>

InitRQ ==
    /\ heap = RQHeap
    /\ rq = RQNew
    /\ lk = NoLookup
    /\ last = Done("none", <<>>, 0, NoCrit)
    /\ TxFresh
    /\ ModIdle

NextRQ ==
    \/ \E conditions \in Conditions, kwargs \in RQKwargs : Filter(conditions, kwargs)
    \/ \E conditions \in Conditions, kwargs \in RQKwargs : Exclude(conditions, kwargs)
    \/ \E fields \in FieldSpecs : OrderByFields(fields)
    \/ \E n \in {1, 2} : Limit(n)
    \/ \E fields \in {<<"participants">>} : Prefetch(fields)
    \/ \E fields \in {<<program>>} : SelectRelated(fields)
    \/ All
    \/ First
    \/ Count

SpecRQ == InitRQ /\ [][NextRQ]_vars

-----------------------------------------------------------------------------
(* The descriptor handed lookups that cannot be compiled: an unknown       *)
(* operator, a value of the wrong shape.                                   *)

\* the Q objects the program holds:  the leaves, then
\*   6: Q(status__foo="A")               7: Q(status__in="A")
\*   8: Q(owner="x") | Q(status__foo="A")    9: ~(Q(owner="x") | Q(status__foo="A"))
\*  10: ~Q(status__in="A")              11: Q(status="A") & ~Q(status__in="A")
InvalidHeap ==
    LET h6 == Append(Leaves, QNew(<< <<status \o SEP \o <<"f","o","o">>, StrV(<<"A">>)>> >>))
        h7 == Append(h6, QNew(<< <<status \o SEP \o in, StrV(<<"A">>)>> >>))
        h8 == Append(h7, QCombine(4, 6, "OR"))
        h9 == Append(h8, QInvertOf(h8, 8))
        h10 == Append(h9, QInvertOf(h9, 7))
    IN  Append(h10, QCombine(2, 10, "AND"))

\* the positional arguments of filter() and exclude(): none, or one of
\* Q(status="A"), entry 9, entry 11
InvalidConditions == {<<>>, <<2>>, <<9>>, <<11>>}

\* the keyword arguments: none, status="P", or owner="x" with status__foo="A"
InvalidKwargs ==
    { <<>>,
      << <<status, StrV(<<"P">>)>> >>,
      << <<owner, StrV(<<"x">>)>>,
         <<status \o SEP \o <<"f","o","o">>, StrV(<<"A">>)>> >> }

InitInvalid ==
    /\ heap = InvalidHeap
    /\ rq = RQNew
    /\ lk = NoLookup
    /\ last = Done("none", <<>>, 0, NoCrit)
    /\ TxFresh
    /\ ModIdle

NextInvalid ==
    \/ \E conditions \in InvalidConditions, kwargs \in InvalidKwargs : Filter(conditions, kwargs)
    \/ \E conditions \in InvalidConditions, kwargs \in InvalidKwargs : Exclude(conditions, kwargs)
    \/ All
    \/ First
    \/ Count

SpecInvalid == InitInvalid /\ [][NextInvalid]_vars

-----------------------------------------------------------------------------
(* Atomic blocks in one context: blocks are entered, their bodies finish   *)
(* or raise, and an exception that left a block is caught by a handler in  *)
(* the enclosing code or goes on to the enclosing block.                   *)

\* atomic blocks entered in one run
MaxBlocks == 4

\* with atomic(): ...   entered where no exception is on its way
Enter ==
    /\ ~Propagating
    /\ Cardinality({i \in 1..Len(db) : db[i].call = "savepoint"}) < MaxBlocks
    /\ LET r == AtomicEnter(txn, db)
       IN  /\ txn' = r.state
           /\ db' = r.db
           /\ atomics' = Append(IF atomics = <<>> THEN atomics
                                ELSE [atomics EXCEPT ![Len(atomics)].inner = @ + 1],
                                [savepoint_name |-> r.name, at |-> Len(db), inner |-> 0])
           /\ last' = Done("enter", <<r.name>>, 0, NoCrit)
    /\ UNCHANGED <<modvars, heap, rq, lk, exc>>

\* the innermost open block and the exit record of last
Innermost == atomics[Len(atomics)]
ExitArgs(block, e, out) == <<block.savepoint_name, block.at, block.inner, e, out>>

\* the body of the innermost block finishes normally
ExitNormal ==
    /\ ~Propagating
    /\ atomics # <<>>
    /\ LET r == AtomicExit(txn, Innermost.savepoint_name, db, NoException)
       IN  /\ txn' = r.state
           /\ db' = r.db
           /\ last' = Done("exit", ExitArgs(Innermost, NoException, r.out), 0, NoCrit)
    /\ atomics' = SubSeq(atomics, 1, Len(atomics) - 1)
    /\ UNCHANGED <<modvars, heap, rq, lk, exc>>

\* the body of the innermost block raises e
ExitRaising(e) ==
    /\ ~Propagating
    /\ atomics # <<>>
    /\ LET r == AtomicExit(txn, Innermost.savepoint_name, db, e)
       IN  /\ txn' = r.state
           /\ db' = r.db
           /\ exc' = [e |-> r.out, raised |-> e, left |-> <<Innermost.savepoint_name>>,
                      since |-> Len(db), upto |-> Len(r.db), caught |-> FALSE]
           /\ last' = Done("exit", ExitArgs(Innermost, e, r.out), 0, NoCrit)
    /\ atomics' = SubSeq(atomics, 1, Len(atomics) - 1)
    /\ UNCHANGED <<modvars, heap, rq, lk>>

\* the exception that left an inner block leaves the body of the enclosing
\* block as well
ExitPropagating ==
    /\ Propagating
    /\ atomics # <<>>
    /\ LET r == AtomicExit(txn, Innermost.savepoint_name, db, exc.e)
       IN  /\ txn' = r.state
           /\ db' = r.db
           /\ exc' = [exc EXCEPT !.e = r.out,
                                 !.left = Append(@, Innermost.savepoint_name),
                                 !.upto = Len(r.db)]
           /\ last' = Done("exit", ExitArgs(Innermost, exc.e, r.out), 0, NoCrit)
    /\ atomics' = SubSeq(atomics, 1, Len(atomics) - 1)
    /\ UNCHANGED <<modvars, heap, rq, lk>>

\* try: ... except Exception: in the enclosing body, or in the caller
Catch ==
    /\ Propagating
    /\ exc' = [exc EXCEPT !.caught = TRUE]
    /\ last' = Done("catch", <<exc.e>>, 0, NoCrit)
    /\ UNCHANGED <<modvars, heap, rq, lk, txn, atomics, db>>

InitTx ==
    /\ heap = <<>>
    /\ rq = RQNew
    /\ lk = NoLookup
    /\ last = Done("none", <<>>, 0, NoCrit)
    /\ TxFresh
    /\ ModIdle

NextTx ==
    \/ Enter
    \/ ExitNormal
    \/ \E e \in BodyExceptions : ExitRaising(e)
    \/ ExitPropagating
    \/ Catch

SpecTx == InitTx /\ [][NextTx]_vars

-----------------------------------------------------------------------------
(* Atomic blocks over a database that may refuse a call *)

\* calls on frappe.db that raise in one run
MaxDbErrors == 1

DbErrors == Cardinality({i \in 1..Len(db) :
                            db[i].call \notin {"savepoint", "release_savepoint", "rollback"}})

\* with atomic(): ...   where frappe.db.savepoint raises: __enter__ raises, the
\* body does not run and __exit__ is not called
EnterDbRaises ==
    /\ ~Propagating
    /\ DbErrors < MaxDbErrors
    /\ Cardinality({i \in 1..Len(db) : db[i].call = "savepoint"}) < MaxBlocks
    /\ LET r == AtomicEnterDbRaises(txn, db)
       IN  /\ txn' = r.state
           /\ db' = r.db
           /\ exc' = [e |-> r.out, raised |-> r.out, left |-> <<>>,
                      since |-> Len(db), upto |-> Len(r.db), caught |-> FALSE]
           /\ last' = Done("enter", <<r.name, r.out>>, 0, NoCrit)
    /\ UNCHANGED <<modvars, heap, rq, lk, atomics>>

\* the innermost block is left, normally or with exception e, and the call
\* __exit__ makes on frappe.db raises
ExitDbRaises(e) ==
    /\ atomics # <<>>
    /\ DbErrors < MaxDbErrors
    /\ Propagating => e = exc.e
    /\ ExitCallsDb(txn, e)
    /\ LET r == AtomicExitDbRaises(txn, Innermost.savepoint_name, db, e)
       IN  /\ txn' = r.state
           /\ db' = r.db
           /\ exc' = [e |-> r.out,
                      raised |-> IF Propagating THEN exc.raised ELSE e,
                      left |-> IF Propagating THEN Append(exc.left, Innermost.savepoint_name)
                               ELSE <<Innermost.savepoint_name>>,
                      since |-> IF Propagating THEN exc.since ELSE Len(db),
                      upto |-> Len(r.db), caught |-> FALSE]
           /\ last' = Done("exit", ExitArgs(Innermost, e, r.out), 0, NoCrit)
    /\ atomics' = SubSeq(atomics, 1, Len(atomics) - 1)
    /\ UNCHANGED <<modvars, heap, rq, lk>>

NextTxDb ==
    \/ NextTx
    \/ EnterDbRaises
    \/ \E e \in {NoException, DbError} \cup BodyExceptions : ExitDbRaises(e)

SpecTxDb == InitTx /\ [][NextTxDb]_vars

-----------------------------------------------------------------------------
(* The config module: override blocks are entered and left, and config()   *)
(* and AppConfig.load are called, inside and outside of them.              *)

\* override_config blocks entered in one run
MaxOverrides == 3

\* site, common and env of the repositories
SiteOne ==
    << << <<"k">>, StrV(<<"s">>) >>,
       << <<"a">>, DictV(<< << <<"b">>, StrV(<<"s","b">>) >> >>) >>,
       << <<"a","_","b">>, StrV(<<"s","b">>) >> >>
CommonOne ==
    << << <<"k">>, StrV(<<"c">>) >>,
       << <<"a">>, DictV(<< << <<"b">>, StrV(<<"c","b">>) >>,
                           << <<"c">>, StrV(<<"c","c">>) >> >>) >>,
       << <<"a","_","b">>, StrV(<<"c","b">>) >>,
       << <<"a","_","c">>, StrV(<<"c","c">>) >> >>
EnvOne == << << <<"E">>, StrV(<<" ","T","r","u","e">>) >>, << <<"A","_","B">>, StrV(<<"e">>) >> >>
CommonTwo ==
    << << <<"k">>, StrV(<<"y","e","s">>) >>,
       << <<"a">>, DictV(<< << <<"b">>, StrV(<<"c","b">>) >> >>) >>,
       << <<"a","_","c">>, StrV(<<"c","c">>) >> >>
SiteThree ==
    << << <<"k">>, NoneV >>,
       << <<"a",".","b">>, StrV(<<"l","i","t">>) >>,
       << <<"a">>, DictV(<< << <<"b">>, IntV(0) >> >>) >> >>
EnvThree == << << <<"E">>, StrV(<<>>) >> >>

\* the arguments of override_config(site=, common=, env=)
OverrideInputs ==
    { <<SiteOne, CommonOne, EnvOne>>,
      <<<<>>, CommonTwo, <<>>>>,
      <<SiteThree, <<>>, EnvThree>>,
      <<<<>>, <<>>, <<>>>> }

\* the arguments of config()
ConfigKeys == { <<"k">>, <<"a",".","b">>, <<"a",".","c">> }
ConfigDefaults == { UNDEFINED, NoneV, StrV(<<"1">>) }
ConfigCasts == { "None", "bool", "len" }
ConfigEnvs == { NoEnv, <<"E">> }

\* the AppConfig subclasses: prefix "a"; Meta.key "a" with env_prefix "a";
\* both with the fields b (required) and c (with a default)
AppConfigClasses ==
    { AppConfigClass(<<"a">>, <<>>, <<>>, << <<"b">>, <<"c">> >>, { <<"b">> }),
      AppConfigClass(<<>>, <<"a">>, <<"a">>, << <<"b">>, <<"c">> >>, { <<"b">> }) }

\* with override_config(site=site, common=common, env=env):
EnterOverride(site, common, env) ==
    /\ conf.entered < MaxOverrides
    /\ conf' = OverrideEnter(conf, site, common, env)
    /\ last' = Done("override_enter", <<IntV(conf.active)>>, 0, NoCrit)
    /\ UNCHANGED <<heap, rq, lk, txvars, wb>>

\* the innermost block is left, its body having finished or raised
LeaveOverride(raising) ==
    /\ conf.blocks # <<>>
    /\ conf' = OverrideExit(conf)
    /\ last' = Done("override_exit", <<BoolV(raising)>>, 0, NoCrit)
    /\ UNCHANGED <<heap, rq, lk, txvars, wb>>

\* the repository a call without repo= reads, and the module state it leaves
CallState == [AutoRepository(conf) EXCEPT
                 !.base = IF conf.blocks = <<>> THEN AutoRepository(conf).active ELSE @]

\* config(key, default=default, cast=cast, env=env)
ConfigCall(key, default, cast, env) ==
    /\ conf' = CallState
    /\ last' = Done("config", <<key, default, cast, env,
                               Config(CallState.repos[CallState.active], key, default, cast, env)>>,
                    0, NoCrit)
    /\ UNCHANGED <<heap, rq, lk, txvars, wb>>

\* cls.load()
LoadCall(cls) ==
    /\ conf' = CallState
    /\ last' = Done("load", <<cls, AppConfigLoad(cls, CallState.repos[CallState.active])>>,
                    0, NoCrit)
    /\ UNCHANGED <<heap, rq, lk, txvars, wb>>

\* reading: the program has set one of the repositories, or none, and
\* calls config() and AppConfig.load
InitConfig ==
    /\ heap = <<>>
    /\ rq = RQNew
    /\ lk = NoLookup
    /\ last = Done("none", <<>>, 0, NoCrit)
    /\ TxFresh
    /\ conf \in {ConfNew} \cup
                {SetRepository(ConfNew, FakeConfigRepository(inp[3], inp[1], inp[2])) :
                    inp \in OverrideInputs}
    /\ wb = WbClosed

NextConfig ==
    \/ \E key \in ConfigKeys, default \in ConfigDefaults, cast \in ConfigCasts,
          env \in ConfigEnvs : ConfigCall(key, default, cast, env)
    \/ \E cls \in AppConfigClasses : LoadCall(cls)

SpecConfig == InitConfig /\ [][NextConfig]_vars

\* overriding: the program starts with no repository set, or with one it has
\* set, enters and leaves override blocks and reads k in between
InitOverride ==
    /\ heap = <<>>
    /\ rq = RQNew
    /\ lk = NoLookup
    /\ last = Done("none", <<>>, 0, NoCrit)
    /\ TxFresh
    /\ conf \in {ConfNew, SetRepository(ConfNew, FakeConfigRepository(<<>>, SiteOne, <<>>))}
    /\ wb = WbClosed

NextOverride ==
    \/ \E inp \in OverrideInputs : EnterOverride(inp[1], inp[2], inp[3])
    \/ \E raising \in BOOLEAN : LeaveOverride(raising)
    \/ ConfigCall(<<"k">>, UNDEFINED, "None", NoEnv)

SpecOverride == InitOverride /\ [][NextOverride]_vars

-----------------------------------------------------------------------------
(* A workbook is opened with a configuration and its rows are pulled from   *)
(* the iterator one by one.                                                 *)

\* physical rows of a file
MaxLines == 4

\* the files with the column names in row header_row and nothing before it
Files(header_row) ==
    UNION {{f \in [1..n -> {"blank", "header", "ok", "bad"}] :
               /\ f[header_row] = "header"
               /\ \A i \in 1..n : (i < header_row => f[i] = "blank")
               /\ \A i \in 1..n : (i > header_row => f[i] # "header")} :
           n \in header_row..MaxLines}

HeaderRows == {1, 2}
DataRowStarts(header_row) == {NoneV, IntV(header_row + 2)}
MaxRowsChoices == {NoneV, IntV(1), IntV(2)}

\* next(rows) on the iterator iter_validated_rows returned
NextRow ==
    /\ wb.format # "none"
    /\ ~wb.it.done
    /\ LET it == IterNext(wb.format, wb.file, wb.config, wb.it)
       IN  /\ wb' = [wb EXCEPT !.it = it,
                               !.yielded = IF it.done THEN @ ELSE Append(@, it.result)]
           /\ last' = Done("next", <<it.result, it.done>>, 0, NoCrit)
    /\ UNCHANGED <<heap, rq, lk, txvars, conf>>

InitWorkbook ==
    /\ heap = <<>>
    /\ rq = RQNew
    /\ lk = NoLookup
    /\ last = Done("none", <<>>, 0, NoCrit)
    /\ TxFresh
    /\ conf = ConfNew
    /\ \E format \in {"csv", "xlsx"}, header_row \in HeaderRows,
          stop_on_first_error \in BOOLEAN, max_rows \in MaxRowsChoices :
          \E file \in Files(header_row), data_row_start \in DataRowStarts(header_row) :
              wb = [format |-> format, file |-> file,
                    config |-> WorkbookConfig(header_row, data_row_start,
                                              stop_on_first_error, max_rows),
                    it |-> IterNew, yielded |-> <<>>]

NextWorkbook == NextRow

SpecWorkbook == InitWorkbook /\ [][NextWorkbook]_vars

-----------------------------------------------------------------------------
(* Vocabulary of the properties *)

\* the Q references among the children of heap entry i
QRefs(h, i) == {h[i].children[k].ref : k \in {k \in 1..Len(h[i].children) : h[i].children[k].kind = "Q"}}

\* entry i was produced by ~ : its only child is a Q
IsInverted(h, i) == Len(h[i].children) = 1 /\ h[i].children[1].kind = "Q"

\* entry i was produced by & or | : two children, both Q
IsCombined(h, i) ==
    /\ Len(h[i].children) = 2
    /\ h[i].children[1].kind = "Q"
    /\ h[i].children[2].kind = "Q"

\* the tree rooted at i holds a node without children
RECURSIVE ContainsEmpty(_, _)
ContainsEmpty(h, i) ==
    \/ h[i].children = <<>>
    \/ \E j \in QRefs(h, i) : ContainsEmpty(h, j)

\* the tree rooted at i holds a node produced by ~
RECURSIVE ContainsInvert(_, _)
ContainsInvert(h, i) ==
    \/ IsInverted(h, i)
    \/ \E j \in QRefs(h, i) : ContainsInvert(h, j)

\* how many times ~ was applied on top of the tree that entry i wraps
RECURSIVE InvertCount(_, _)
InvertCount(h, i) ==
    IF IsInverted(h, i) THEN 1 + InvertCount(h, h[i].children[1].ref) ELSE 0

\* the entry those applications of ~ started from
RECURSIVE InvertBase(_, _)
InvertBase(h, i) ==
    IF IsInverted(h, i) THEN InvertBase(h, h[i].children[1].ref) ELSE i

\* a non-empty tree built with the constructor, & and | only
PlainTree(h, i) == ~ContainsEmpty(h, i) /\ ~ContainsInvert(h, i)

Compiled(q) == QToCriterion(heap, heap[q])

-----------------------------------------------------------------------------
(* C1: for a non-empty tree x built with the constructor, & and |,          *)
(* compiling x with ~ applied n times on top yields a condition equivalent  *)
(* to compile(x) when n is even and to NOT compile(x) when n is odd.        *)
C1_NegationParity ==
    (last.op = "compile" /\ PlainTree(heap, InvertBase(heap, last.args[1]))) =>
        LET x == InvertBase(heap, last.args[1])
            n == InvertCount(heap, last.args[1])
        IN  Equivalent(last.crit, IF n % 2 = 0 THEN Compiled(x) ELSE CNot(Compiled(x)))

-----------------------------------------------------------------------------
(* C3: for non-empty trees a and b built without negation, a & b compiles  *)
(* to compile(a) AND compile(b) and a | b to compile(a) OR compile(b), the *)
(* operands' own conditions kept nested as they are; a row is selected     *)
(* accordingly, and (Q(status=A) | Q(status=P)) & Q(owner=x) selects       *)
(* exactly the rows with status A or P and owner x.                        *)
C3_IsExample(q) ==
    /\ IsCombined(heap, q)
    /\ heap[q] = QCombine(heap[q].children[1].ref, 4, "AND")
    /\ heap[heap[q].children[1].ref] = QCombine(2, 3, "OR")

C3_AndOrCompile ==
    (/\ last.op = "compile"
     /\ IsCombined(heap, last.args[1])
     /\ \A j \in QRefs(heap, last.args[1]) : PlainTree(heap, j)) =>
        LET q == last.args[1]
            a == Compiled(heap[q].children[1].ref)
            b == Compiled(heap[q].children[2].ref)
        IN  /\ heap[q].connector = "AND" =>
                /\ last.crit = CAnd(a, b)
                /\ \A row \in Rows :
                     Matches(last.crit, row) <=> (Matches(a, row) /\ Matches(b, row))
            /\ heap[q].connector = "OR" =>
                /\ last.crit = COr(a, b)
                /\ \A row \in Rows :
                     Matches(last.crit, row) <=> (Matches(a, row) \/ Matches(b, row))
            /\ C3_IsExample(q) =>
                \A row \in Rows :
                    Matches(last.crit, row) <=>
                        /\ row[status] \in {StrV(<<"A">>), StrV(<<"P">>)}
                        /\ row[owner] = StrV(<<"x">>)

C3_Witness ==
    /\ last.op = "compile"
    /\ C3_IsExample(last.args[1])
    /\ ~IsError(last.crit)

-----------------------------------------------------------------------------
(* C4: for a non-empty tree x whose root has negated = False, ~x compiles  *)
(* to the backend NOT applied exactly once to compile(x).                  *)
C4_Case ==
    /\ last.op = "compile"
    /\ IsInverted(heap, last.args[1])
    /\ ~heap[heap[last.args[1]].children[1].ref].negated
    /\ ~ContainsEmpty(heap, last.args[1])

C4_SingleNegation ==
    C4_Case => last.crit = CNot(Compiled(heap[last.args[1]].children[1].ref))

\* ~x compiled for a composite x
C4_Witness ==
    /\ C4_Case
    /\ IsCombined(heap, heap[last.args[1]].children[1].ref)

-----------------------------------------------------------------------------
-----------------------------------------------------------------------------
(* C10: compiling a tree that holds a node without children raises an      *)
(* error and yields no condition, wherever in the tree that node is.       *)
C10_EmptyRaises ==
    (last.op = "compile" /\ ContainsEmpty(heap, last.args[1])) =>
        /\ IsError(last.crit)
        /\ last.crit.args[1] = "Cannot convert empty Q object to criterion"

\* the node without children is not the root: Q(a) | Q(), ~Q(), ...
C10_Witness ==
    /\ last.op = "compile"
    /\ heap[last.args[1]].children # <<>>
    /\ ContainsEmpty(heap, last.args[1])
    /\ IsError(last.crit)


-----------------------------------------------------------------------------
(* The lookup that was built, and the cases of an empty iterable *)

Parsed == ParseLookup(lk.key, lk.value)

EmptyIterable(v) == ~IsStr(v) /\ HasIter(v) /\ ToList(v) = <<>>

\* the rows that carry the column the lookup is on
RowsWith(f) == {row \in Rows : f \in DOMAIN row}

(* C6: a not_in lookup with an empty iterable compiles to a condition that *)
(* is true on every row, whatever the column's value, NULL included.       *)
C6_Case ==
    /\ last.op = "build"
    /\ Parsed.lookup = not_in
    /\ EmptyIterable(Parsed.value)

C6_NotInEmptyAlwaysTrue ==
    C6_Case =>
        /\ ~IsError(last.crit)
        /\ \A row \in RowsWith(Parsed.field_name) : Eval(last.crit, row) = "T"

-----------------------------------------------------------------------------
(* C7: an in lookup with an empty iterable compiles to a condition that    *)
(* selects no row, whatever the column's value, NULL included.             *)
C7_Case ==
    /\ last.op = "build"
    /\ Parsed.lookup = in
    /\ EmptyIterable(Parsed.value)

C7_InEmptyMatchesNothing ==
    C7_Case =>
        /\ ~IsError(last.crit)
        /\ \A row \in RowsWith(Parsed.field_name) : ~Matches(last.crit, row)

\* status__in = [] was built, and there are rows with and without a status
C7_Witness ==
    /\ C7_Case
    /\ Parsed.field_name = status
    /\ \E row \in RowsWith(status) : IsNull(row[status])
    /\ \E row \in RowsWith(status) : ~IsNull(row[status])


-----------------------------------------------------------------------------
(* C9: when a node being compiled has among its children a leaf mapping    *)
(* with several keys, the conditions of that leaf's keys are AND-ed        *)
(* together as one unit before being combined with the node's other        *)
(* children, whatever the node's connector is.                             *)

\* the conditions of one leaf, AND-ed into one
C9_LeafUnit(dict) ==
    CombineConditions("AND", LeafConditions(dict)[1], Tail(LeafConditions(dict)))

\* one condition per child: a leaf's unit, or the compiled child Q
C9_Units(h, q) ==
    [k \in 1..Len(q.children) |->
        IF q.children[k].kind = "dict"
        THEN C9_LeafUnit(q.children[k].dict)
        ELSE QToCriterion(h, h[q.children[k].ref])]

C9_Claimed(h, q) ==
    ApplyNegation(q, CombineConditions(q.connector, C9_Units(h, q)[1], Tail(C9_Units(h, q))))

C9_Case ==
    /\ last.op = "compile"
    /\ ~IsError(last.crit)
    /\ \E k \in 1..Len(heap[last.args[1]].children) :
          /\ heap[last.args[1]].children[k].kind = "dict"
          /\ Len(heap[last.args[1]].children[k].dict) > 1

-----------------------------------------------------------------------------
(* The where() calls of the query a terminal operation built *)

Executed == last.op \in {"all", "first", "count"} /\ last.query.built

\* how many where() calls the filter() arguments account for
NumFilterWheres(d) ==
    (IF d.filter_qs # <<>> THEN 1 ELSE 0) + Len(KwConditions(d.filters))

FilterPart(query, d) == SubSeq(query.wheres, 1, NumFilterWheres(d))
ExcludePart(query, d) == SubSeq(query.wheres, NumFilterWheres(d) + 1, Len(query.wheres))

AllMatch(wheres, row) == \A i \in 1..Len(wheres) : Matches(wheres[i], row)

(* C2: the executed query returns a row only if the row matches none of    *)
(* the accumulated exclude conditions: each exclude condition (Q object or *)
(* keyword lookup) is negated on its own and the negations are AND-ed.     *)
C2_EachExcludeNegated ==
    Executed =>
        \A row \in Rows :
            AllMatch(ExcludePart(last.query, rq), row) <=>
                /\ \A k \in 1..Len(rq.exclude_qs) :
                      Matches(CNot(Compiled(rq.exclude_qs[k])), row)
                /\ \A k \in 1..Len(KwConditions(rq.exclude_filters)) :
                      Matches(CNot(KwConditions(rq.exclude_filters)[k]), row)

-----------------------------------------------------------------------------
(* C5: at execution a row satisfies the filter part of the query if and    *)
(* only if it satisfies every Q object and every keyword lookup that the   *)
(* filter() calls accumulated, in whatever order and split they came.      *)
C5_FilterIsConjunction ==
    Executed =>
        \A row \in Rows :
            AllMatch(FilterPart(last.query, rq), row) <=>
                /\ \A k \in 1..Len(rq.filter_qs) : Matches(Compiled(rq.filter_qs[k]), row)
                /\ \A k \in 1..Len(rq.filters) :
                      \A j \in 1..Len(rq.filters[k]) :
                          Matches(BuildCondition(Schema,
                                      ParseLookup(rq.filters[k][j][1], rq.filters[k][j][2])),
                                  row)

\* two Q objects and a keyword dict were accumulated and the query was run
C5_Witness ==
    /\ Executed
    /\ Len(rq.filter_qs) >= 2
    /\ Len(rq.filters) >= 1
    /\ \E row \in Rows : AllMatch(FilterPart(last.query, rq), row)
    /\ \E row \in Rows : ~AllMatch(FilterPart(last.query, rq), row)

-----------------------------------------------------------------------------
(* C11: no operation changes an existing Q object: across &, |, ~ and a     *)
(* compilation every object that existed keeps its children, connector and *)
(* negated flag, and compiling a tree again yields the same condition.     *)
C11_Step ==
    /\ Len(heap') >= Len(heap)
    /\ \A i \in 1..Len(heap) : heap'[i] = heap[i]
    /\ last'.op = "compile" =>
          /\ heap' = heap
          /\ last'.crit = QToCriterion(heap', heap'[last'.args[1]])
          /\ (last.op = "compile" /\ last.args = last'.args) => last'.crit = last.crit

-----------------------------------------------------------------------------
(* The parsed lookup the builder was handed *)

BuiltFrom == last.args[1]

(* C12: the parser returns lookup exact and the whole key as field name    *)
(* when the key holds no "__"; otherwise it splits at the last "__" only:  *)
(* field name before it, lookup after it (s__o__gt: field s__o, lookup     *)
(* gt); it returns a result for every key and does not validate the lookup.*)
C12_ParserSplitsAtLastSep ==
    last.op = "build" =>
        /\ BuiltFrom.value = lk.value
        /\ ~HasSep(lk.key) => (BuiltFrom.field_name = lk.key /\ BuiltFrom.lookup = exact)
        /\ HasSep(lk.key) =>
              /\ BuiltFrom.field_name \o SEP \o BuiltFrom.lookup = lk.key
              /\ ~HasSep(<<"_">> \o BuiltFrom.lookup)
        /\ lk.key = status \o SEP \o owner \o SEP \o gt =>
              (BuiltFrom.field_name = status \o SEP \o owner /\ BuiltFrom.lookup = gt)
        /\ lk.key = status \o SEP \o <<"n","a","m","e">> =>
              BuiltFrom.lookup = <<"n","a","m","e">>

\* a key with two separators was parsed
C12_Witness ==
    /\ last.op = "build"
    /\ lk.key = status \o SEP \o owner \o SEP \o gt

-----------------------------------------------------------------------------
(* C13: every parsed lookup has a non-empty field name, for every key.     *)
C13_FieldNameNonEmpty ==
    last.op = "build" => BuiltFrom.field_name # <<>>

-----------------------------------------------------------------------------
(* C14: the builder raises a validation error and returns no condition     *)
(* when a lookup gets a value of the wrong shape: range without a list or  *)
(* tuple of 2; in / not_in with a string or a non-iterable; isnull / blank *)
(* with a non-boolean (0 and 1 included); contains / startswith / endswith *)
(* with a non-string.                                                      *)
C14_WrongShape(parsed) ==
    \/ /\ parsed.lookup = range
       /\ ~(parsed.value.t \in {"list", "tuple"} /\ Len(parsed.value.items) = 2)
    \/ /\ parsed.lookup \in {in, not_in}
       /\ parsed.value.t \in {"str", "none", "int", "bool"}
    \/ /\ parsed.lookup \in {isnull, blank}
       /\ parsed.value.t # "bool"
    \/ /\ parsed.lookup \in {contains, startswith, endswith}
       /\ parsed.value.t # "str"

C14_WrongShapeRaises ==
    (last.op = "build" /\ C14_WrongShape(BuiltFrom)) =>
        /\ IsError(last.crit)
        /\ last.crit.args[1] # "Unsupported lookup"

\* not_in was handed a string of two characters
C14_Witness ==
    /\ last.op = "build"
    /\ C14_WrongShape(BuiltFrom)
    /\ BuiltFrom.lookup = not_in
    /\ BuiltFrom.value = StrV(<<"A", "P">>)
    /\ IsError(last.crit)

-----------------------------------------------------------------------------
(* C15: a lookup name outside the thirteen supported ones, the suffix of   *)
(* s__name and an empty suffix included, makes the builder fail with       *)
(* "Unsupported lookup", naming the lookup and the field; the suffix is    *)
(* not taken as part of the field name nor as exact.                       *)
C15_Case ==
    /\ last.op = "build"
    /\ HasSep(lk.key)
    /\ SubSeq(lk.key, LastSep(lk.key) + 2, Len(lk.key)) \notin SupportedLookups

-----------------------------------------------------------------------------
(* C16: for an exact lookup on a field declared bool or bool | None with a *)
(* True / False value the column is compared with 1 / 0; for every other   *)
(* comparison lookup and for other fields the value is passed unchanged.   *)
C16_Declared == {f \in DOMAIN Schema : Schema[f] \in {"bool", "bool_optional"}}

C16_Expected(parsed) ==
    IF parsed.lookup = exact /\ parsed.field_name \in C16_Declared /\ parsed.value.t = "bool"
    THEN IntV(IF parsed.value = BoolV(TRUE) THEN 1 ELSE 0)
    ELSE parsed.value

C16_BoolCoercion ==
    (last.op = "build" /\ BuiltFrom.lookup \in {exact, gt, gte, lt, lte}) =>
        /\ ~IsError(last.crit)
        /\ last.crit.f = BuiltFrom.field_name
        /\ last.crit.v = C16_Expected(BuiltFrom)

-----------------------------------------------------------------------------
(* C17: filter, exclude, order_by, limit, prefetch and select_related each *)
(* return the descriptor they were called on and change only their own     *)
(* part of it, appending in call order; every other field and all earlier  *)
(* entries stay as they were.                                              *)
C17_Chaining == {"filter", "exclude", "order_by", "limit", "prefetch", "select_related"}

\* the fields of the descriptor outside own are the same in d and e
C17_Frame(d, e, own) == \A f \in (DOMAIN d) \ own : e[f] = d[f]

C17_Step ==
    /\ last'.op \in C17_Chaining => last'.ret = rq'
    /\ last'.op = "filter" =>
          /\ C17_Frame(rq, rq', {"filters", "filter_qs"})
          /\ rq'.filter_qs = rq.filter_qs \o last'.args[1]
          /\ rq'.filters =
                rq.filters \o (IF last'.args[2] = <<>> THEN <<>> ELSE <<last'.args[2]>>)
    /\ last'.op = "exclude" =>
          /\ C17_Frame(rq, rq', {"exclude_filters", "exclude_qs"})
          /\ rq'.exclude_qs = rq.exclude_qs \o last'.args[1]
          /\ rq'.exclude_filters =
                rq.exclude_filters \o (IF last'.args[2] = <<>> THEN <<>> ELSE <<last'.args[2]>>)
    /\ last'.op = "order_by" =>
          /\ C17_Frame(rq, rq', {"order_by_fields"})
          /\ rq'.order_by_fields = rq.order_by_fields \o last'.args[1]
    /\ last'.op = "limit" =>
          /\ C17_Frame(rq, rq', {"limit_value"})
          /\ rq'.limit_value = IntV(last'.args[1])
    /\ last'.op = "prefetch" =>
          /\ C17_Frame(rq, rq', {"prefetch_fields"})
          /\ rq'.prefetch_fields = rq.prefetch_fields \o last'.args[1]
    /\ last'.op = "select_related" =>
          /\ C17_Frame(rq, rq', {"select_related_fields"})
          /\ rq'.select_related_fields = rq.select_related_fields \o last'.args[1]

C17_ChainingFrame == [][C17_Step]_vars

\* a later filter() with a Q object and keywords, on a descriptor that
\* already holds another filter Q
C17_Witness ==
    /\ last.op = "filter"
    /\ last.args[1] # <<>>
    /\ last.args[2] # <<>>
    /\ Len(rq.filter_qs) > Len(last.args[1])
    /\ rq.filter_qs[1] # rq.filter_qs[Len(rq.filter_qs)]
    /\ last.ret = rq

-----------------------------------------------------------------------------
(* C18: after any sequence of limit(n) and first() calls limit_value is    *)
(* the argument of the most recent limit(), or 1 if first() came later;    *)
(* first() returns the first row of the query limited to 1, or None when   *)
(* the query has no row.                                                   *)
C18_SelectedRows(query) == {i \in 1..Len(Table) : Selected(query, Table[i])}

C18_Step ==
    /\ last'.op = "limit" => rq'.limit_value = IntV(last'.args[1])
    /\ last'.op = "first" =>
          /\ rq'.limit_value = IntV(1)
          /\ last'.query.built =>
                /\ last'.query.limit = IntV(1)
                /\ last'.result.kind = "none" <=> C18_SelectedRows(last'.query) = {}
                /\ last'.result.kind # "none" =>
                      /\ last'.result.kind = "row"
                      /\ \E i \in C18_SelectedRows(last'.query) :
                            /\ last'.result.rows = <<Table[i]>>
                            /\ \A j \in C18_SelectedRows(last'.query) :
                                  ~RowLess(last'.query.orderby, Table[j], Table[i])
    /\ last'.op \notin {"limit", "first"} => rq'.limit_value = rq.limit_value

C18_LimitAndFirst == [][C18_Step]_vars

\* first() on a descriptor with a filter and a descending ordering returned
\* a row that is not the first row of the table
C18_Witness ==
    /\ last.op = "first"
    /\ last.result.kind = "row"
    /\ last.result.rows # <<Table[1]>>
    /\ rq.filter_qs # <<>>
    /\ rq.order_by_fields # <<>>

-----------------------------------------------------------------------------
(* The calls made on frappe.db between two points of the log *)

Calls(from, to, call) == {i \in (from + 1)..to : db[i].call = call}

(* C19: a single, non-nested atomic block creates exactly one savepoint on *)
(* entry; if its body finishes normally the savepoint is released and      *)
(* nothing is rolled back; if its body raises, the database is rolled back *)
(* to that savepoint exactly once, nothing is released and the body's own  *)
(* exception reaches the caller; in every state of the transaction state,  *)
(* a new one included.                                                     *)
C19_Case ==
    /\ last.op = "exit"
    /\ atomics = <<>>
    /\ last.args[3] = 0

C19_SingleBlock ==
    C19_Case =>
        LET name == last.args[1]
            calls == SubSeq(db, last.args[2] + 1, Len(db))
        IN  IF last.args[4] = NoException
            THEN /\ calls = <<DbCall("savepoint", name), DbCall("release_savepoint", name)>>
                 /\ last.args[5] = NoException
            ELSE /\ calls = <<DbCall("savepoint", name), DbCall("rollback", name)>>
                 /\ last.args[5] = last.args[4]

-----------------------------------------------------------------------------
(* C20: when one exception propagates out of k >= 2 nested atomic blocks,  *)
(* k savepoints with pairwise different names were created, exactly one    *)
(* rollback is issued, to the innermost block's savepoint, no savepoint is *)
(* released, and once the outermost block has exited the rolled-back       *)
(* marker is reset.                                                        *)
C20_Case == Len(exc.left) >= 2

C20_NestedPropagation ==
    C20_Case =>
        /\ \A i, j \in 1..Len(exc.left) : i # j => exc.left[i] # exc.left[j]
        /\ \A i \in 1..Len(exc.left) :
              \E c \in 1..exc.since : db[c] = DbCall("savepoint", exc.left[i])
        /\ \E c \in Calls(exc.since, exc.upto, "rollback") :
              /\ db[c].name = exc.left[1]
              /\ Calls(exc.since, exc.upto, "rollback") = {c}
        /\ Calls(exc.since, exc.upto, "release_savepoint") = {}
        /\ atomics = <<>> => txn.error_rolled_back = "False"

-----------------------------------------------------------------------------
RECURSIVE C28_Visited(_, _)
C28_Visited(h, i) == {i} \cup UNION {C28_Visited(h, j) : j \in QRefs(h, i)}

-----------------------------------------------------------------------------
(* The lookups stored in the descriptor and the errors building them raises *)

\* the (key, value) pairs of the leaves of the tree rooted at heap entry i
RECURSIVE TreeLookups(_, _)
TreeLookups(h, i) ==
    UNION {IF h[i].children[k].kind = "dict"
           THEN {h[i].children[k].dict[j] : j \in 1..Len(h[i].children[k].dict)}
           ELSE TreeLookups(h, h[i].children[k].ref) : k \in 1..Len(h[i].children)}

StoredLookups(h, d) ==
    UNION {TreeLookups(h, d.filter_qs[i]) : i \in 1..Len(d.filter_qs)}
    \cup UNION {TreeLookups(h, d.exclude_qs[i]) : i \in 1..Len(d.exclude_qs)}
    \cup UNION {{d.filters[i][j] : j \in 1..Len(d.filters[i])} : i \in 1..Len(d.filters)}
    \cup UNION {{d.exclude_filters[i][j] : j \in 1..Len(d.exclude_filters[i])} :
                   i \in 1..Len(d.exclude_filters)}

InvalidLookupErrors(h, d) ==
    {c \in {BuildCondition(Schema, ParseLookup(kv[1], kv[2])) : kv \in StoredLookups(h, d)} :
        IsError(c)}

(* C26: if a leaf lookup anywhere in a stored Q tree, or a stored filter or  *)
(* exclude keyword, is invalid (unknown operator, wrong value shape), all,   *)
(* first and count raise that lookup's error and run no query, whatever      *)
(* connectors and negations surround the leaf; filter() and exclude() store  *)
(* what they are given and return the descriptor without raising.            *)
C26_NoPartialResult ==
    /\ (last.op \in {"all", "first", "count"} /\ InvalidLookupErrors(heap, rq) # {}) =>
          /\ ~last.query.built
          /\ last.query.error \in InvalidLookupErrors(heap, rq)
          /\ last.result.kind = "raised"
          /\ last.result.rows = <<>>
    /\ last.op \in {"filter", "exclude"} =>
          LET qs == IF last.op = "filter" THEN rq.filter_qs ELSE rq.exclude_qs
              kw == IF last.op = "filter" THEN rq.filters ELSE rq.exclude_filters
          IN  /\ last.ret = rq
              /\ Len(qs) >= Len(last.args[1])
              /\ SubSeq(qs, Len(qs) - Len(last.args[1]) + 1, Len(qs)) = last.args[1]
              /\ last.args[2] # <<>> => (kw # <<>> /\ kw[Len(kw)] = last.args[2])

\* a terminal operation on a descriptor whose only invalid lookup sits under
\* an OR below a negation, stored by exclude()
C26_Witness ==
    /\ last.op \in {"all", "first", "count"}
    /\ rq.exclude_qs = <<9>>
    /\ rq.filter_qs = <<2>>
    /\ rq.filters = << << <<status, StrV(<<"P">>)>> >> >>
    /\ rq.exclude_filters = <<>>
    /\ last.result.kind = "raised"

-----------------------------------------------------------------------------
(* C27: for every descriptor state, count() applies exactly the sequence of *)
(* where-conditions of the query all() builds (Q filters, keyword filters,  *)
(* negated Q excludes, negated keyword excludes), with no ordering and no   *)
(* limit: it returns the number of rows those conditions select.            *)
C27_CountSameWheres ==
    last.op = "count" =>
        LET q == BuildFrappeQuery(heap, rq)
        IN  /\ last.query.built = q.built
            /\ last.query.error = q.error
            /\ last.query.wheres = q.wheres
            /\ last.query.wheres =
                   QFilterWheres(heap, rq) \o KwFilterWheres(rq) \o
                   QExcludeWheres(heap, rq) \o KwExcludeWheres(rq)
            /\ last.query.orderby = <<>>
            /\ last.query.limit = NoneV
            /\ last.result.kind = "count"
            /\ last.result.n = Cardinality({i \in 1..Len(Table) : Selected(q, Table[i])})

\* count() on a descriptor with a Q filter, a keyword exclude, an ordering and
\* a limit smaller than the number of rows counted
C27_Witness ==
    /\ last.op = "count"
    /\ rq.filter_qs # <<>>
    /\ rq.exclude_filters # <<>>
    /\ rq.order_by_fields # <<>>
    /\ rq.limit_value = IntV(1)
    /\ last.result.n > 1

-----------------------------------------------------------------------------
(* C29: in a context whose state holds the rolled-back marker (a block has  *)
(* exited before), every inner atomic block whose body raises is rolled     *)
(* back to its own savepoint, by one rollback call, also when an earlier    *)
(* inner block of the same outer block failed and its exception was caught. *)
C29_Case ==
    /\ last.op = "exit"
    /\ atomics # <<>>
    /\ ~exc.caught
    /\ exc.left = <<last.args[1]>>
    /\ last.args[4] \in BodyExceptions
    /\ txn.error_rolled_back # "unset"

C29_InnerRolledBack ==
    C29_Case =>
        /\ exc.upto = exc.since + 1
        /\ db[exc.upto] = DbCall("rollback", last.args[1])

-----------------------------------------------------------------------------
(* C30: in every reachable state depth equals the length of the savepoints  *)
(* stack and the number of atomic blocks that are open, the stack holds the *)
(* names powertools_sp_1 .. powertools_sp_depth in order, and with no block *)
(* open depth is 0 and the stack empty; also after a savepoint, release or  *)
(* rollback call has raised.                                                *)
C30_DepthMatchesStack ==
    /\ txn.depth = Len(txn.savepoints)
    /\ txn.depth = Len(atomics)
    /\ \A i \in 1..Len(txn.savepoints) : txn.savepoints[i] = GenerateSavepointName(i)
    /\ atomics = <<>> => (txn.depth = 0 /\ txn.savepoints = <<>>)

-----------------------------------------------------------------------------
(* The repository a config() or load() call read *)

ReadRepo == conf.repos[conf.active]

(* C21: config(key, default, cast, env) returns the first value found in    *)
(* the order environment variable named by env (only when env is given),    *)
(* site config, common config, passed through cast; else the default as it  *)
(* is, without cast; else it raises UndefinedValueError naming the key.     *)
C21_Found(repo, key, env) ==
    (IF env # NoEnv /\ GetEnv(repo, env) # NoneV THEN <<GetEnv(repo, env)>> ELSE <<>>)
    \o (IF LookupInSource(repo, key, "site") # UNDEFINED
        THEN <<LookupInSource(repo, key, "site")>> ELSE <<>>)
    \o (IF LookupInSource(repo, key, "common") # UNDEFINED
        THEN <<LookupInSource(repo, key, "common")>> ELSE <<>>)

C21_ConfigPrecedence ==
    last.op = "config" =>
        LET key == last.args[1]
            default == last.args[2]
            cast == last.args[3]
            found == C21_Found(ReadRepo, key, last.args[4])
        IN  last.args[5] =
                IF found # <<>> THEN ApplyCast(cast, found[1])
                ELSE IF default # UNDEFINED THEN Returned(default)
                ELSE Raised("UndefinedValueError", key)

\* a value the site config does not hold was taken from the common config
\* and cast to bool, although a default was given
C21_Witness ==
    /\ last.op = "config"
    /\ LookupInSource(ReadRepo, last.args[1], "site") = UNDEFINED
    /\ LookupInSource(ReadRepo, last.args[1], "common") = StrV(<<"y","e","s">>)
    /\ last.args[2] = StrV(<<"1">>)
    /\ last.args[3] = "bool"
    /\ last.args[5] = Returned(BoolV(TRUE))

-----------------------------------------------------------------------------
(* C22: on leaving an override_config block, normally or through an         *)
(* exception, at any nesting depth, the module-level repository is the one  *)
(* that was active when the block was entered: the enclosing block's        *)
(* repository, or the one active outside all blocks; so with no block open  *)
(* the original repository is active again.                                 *)
C22_Step ==
    /\ (last'.op = "override_exit" /\ conf'.blocks # conf.blocks) =>
          conf'.active = IF Len(conf.blocks) > 1
                         THEN conf.blocks[Len(conf.blocks) - 1].fake
                         ELSE conf.base
    /\ (last'.op = "override_enter" /\ conf'.blocks # conf.blocks) =>
          /\ last'.args[1] = IntV(conf.active)
          /\ conf.active = IF conf.blocks # <<>> THEN conf.blocks[Len(conf.blocks)].fake
                           ELSE conf.base
    /\ conf'.blocks = <<>> => conf'.active = conf'.base

C22_OverrideRestores == [][C22_Step]_vars

\* the innermost of three nested blocks was left through an exception
C22_Witness ==
    /\ last.op = "override_exit"
    /\ last.args[1] = BoolV(TRUE)
    /\ Len(conf.blocks) = 2
    /\ conf.base # 0

-----------------------------------------------------------------------------
(* C23: AppConfig.load resolves every field on its own in the order         *)
(* environment variable, site config, common config: a field the site       *)
(* config does not define is taken from the common config, with prefixed    *)
(* keys and with a nested Meta.key dictionary alike; a field found nowhere  *)
(* is omitted from the data handed to the model.                            *)
C23_InFile(cls, pairs, field_name) ==
    IF cls.key # <<>>
    THEN IF DictGet(pairs, cls.key, NoneV).t = "dict"
         THEN DictGet(DictGet(pairs, cls.key, NoneV).items, field_name, UNDEFINED)
         ELSE UNDEFINED
    ELSE IF DictGet(pairs, (IF cls.prefix # <<>> THEN cls.prefix \o <<"_">> ELSE <<>>)
                           \o field_name, NoneV) # NoneV
    THEN DictGet(pairs, (IF cls.prefix # <<>> THEN cls.prefix \o <<"_">> ELSE <<>>)
                        \o field_name, NoneV)
    ELSE UNDEFINED

C23_Expected(cls, repo, field_name) ==
    IF cls.env_prefix # <<>> /\
       GetEnv(repo, Upper(cls.env_prefix \o <<"_">> \o field_name)) # NoneV
    THEN GetEnv(repo, Upper(cls.env_prefix \o <<"_">> \o field_name))
    ELSE IF C23_InFile(cls, repo.site, field_name) # UNDEFINED
    THEN C23_InFile(cls, repo.site, field_name)
    ELSE C23_InFile(cls, repo.common, field_name)

C23_FieldsIndependent ==
    last.op = "load" =>
        \A i \in 1..Len(last.args[1].fields) :
            DictGet(last.args[2].raw, last.args[1].fields[i], UNDEFINED) =
                C23_Expected(last.args[1], ReadRepo, last.args[1].fields[i])

-----------------------------------------------------------------------------
(* C24: iter_validated_rows yields results in file order and stops early:   *)
(* with max_rows = m it yields at most m results, skipped rows not being    *)
(* counted (it does not stop short of m while rows are left), and with      *)
(* stop_on_first_error no result follows the first invalid one.             *)
C24_StoppedForAReason ==
    \/ wb.config.max_rows # NoneV /\ Len(wb.yielded) = wb.config.max_rows.n
    \/ wb.config.stop_on_first_error /\ ~wb.yielded[Len(wb.yielded)].valid
    \/ \A l \in (wb.yielded[Len(wb.yielded)].line + 1)..Len(wb.file) : wb.file[l] = "blank"

C24_OrderedAndBounded ==
    /\ \A i, j \in 1..Len(wb.yielded) : i < j => wb.yielded[i].line < wb.yielded[j].line
    /\ wb.config.max_rows # NoneV => Len(wb.yielded) <= wb.config.max_rows.n
    /\ wb.config.stop_on_first_error =>
          \A i \in 1..Len(wb.yielded) : ~wb.yielded[i].valid => i = Len(wb.yielded)
    /\ (wb.it.done /\ wb.yielded # <<>>) => C24_StoppedForAReason

\* max_rows = 1: a row was skipped, the next one was yielded, and the
\* iterator ended with a data row left in the file
C24_Witness ==
    /\ wb.it.done
    /\ wb.config.max_rows = IntV(1)
    /\ Len(wb.yielded) = 1
    /\ wb.yielded[1].valid
    /\ wb.yielded[1].line > wb.config.header_row + 1
    /\ \E l \in (wb.yielded[1].line + 1)..Len(wb.file) : wb.file[l] # "blank"

-----------------------------------------------------------------------------
(* C25: every yielded RowResult carries in context.row_index the 1-based    *)
(* physical row number of its row in the CSV file or XLSX sheet, also when  *)
(* blank rows come before it.                                               *)
C25_RowIndexIsPhysical ==
    \A i \in 1..Len(wb.yielded) : wb.yielded[i].row_index = wb.yielded[i].line

=============================================================================
